---- MODULE Spec2Model ----
(***************************************************************************)
(* Model of the skill-matching and scoring pipeline of resume-analyzer:    *)
(*   src/processing/similarity_matcher.py  SimilarityMatcher               *)
(*   src/processing/embedder.py            Embedder                        *)
(*   src/scoring/match_scorer.py           MatchScorer                     *)
(*   src/scoring/experience_scorer.py      ExperienceScorer                *)
(*   src/main_enhanced.py                  EnhancedResumeAnalyzer.analyze  *)
(*   src/extraction/text_cleaner.py        TextCleaner                     *)
(*   src/extraction/pdf_extractor.py       PDFExtractor                    *)
(*   src/extraction/docx_extractor.py      DOCXExtractor                   *)
(*   src/utils/file_loader.py              FileLoader.read_text_file       *)
(*   src/processing/skill_extractor.py     SkillExtractor                  *)
(*   src/processing/jd_skill_extractor.py  JDSkillExtractor                *)
(*                                                                         *)
(* Texts are sequences of one-character strings; the regular expressions   *)
(* of the source are matched character by character, with the greedy      *)
(* backtracking of Python's re module.                                     *)
(* Python floats are modelled by exact rationals [n, d] in lowest terms.   *)
(* round(x, 1) is modelled by the set of its possible results: the nearest *)
(* tenth, and at an exact tie both neighbours, because the binary value of *)
(* the float decides which one Python returns there.                       *)
(***************************************************************************)
EXTENDS Integers, Sequences, FiniteSets, TLC

VARIABLES
    exp_called,     \* an ExperienceScorer.calculate_experience_score call has returned
    exp_candidate,  \* its candidate_years argument (NoneYears for None)
    exp_required,   \* its required_years argument (NoneYears for None)
    exp_score,      \* the value it returned
    sc_weights,     \* MatchScorer.weights: a dict from weight names to floats
    sc_method,      \* the MatchScorer method called last ("init" before any call)
    sc_args,        \* its positional arguments
    sc_warg_none,   \* calculate_final_score: the weights argument was None
    sc_warg,        \* the dict passed as weights (to set_weights or calculate_final_score)
    sc_applied,     \* calculate_final_score: the four factors w.get(...) it multiplied by
    sc_result,      \* the value the method returned
    sc_error,       \* the method raised ValueError
    an_pc,          \* EnhancedResumeAnalyzer.analyze: the step reached
    resume_skills_in,     \* all_resume_skills['skills'], the list handed to both matchers
    required_skills_in,   \* required_skills, the list handed to both matchers
    skill_matching,       \* the dict returned by SimilarityMatcher.match_skills
    similarity_matrix,    \* Embedder.semantic_skill_match: util.cos_sim(resume_embs, jd_embs)
    semantic_skill_match, \* the dict returned by Embedder.semantic_skill_match
    report,               \* the skills_analysis part of the report built by generate_report
    gap_called,     \* an ExperienceScorer.analyze_experience_gap call has returned
    gap_candidate,  \* its candidate_years argument (NoneYears for None)
    gap_required,   \* its required_years argument (NoneYears for None)
    gap_analysis,   \* the dict it returned
    cl_lowercase,          \* TextCleaner.lowercase
    cl_remove_stopwords,   \* TextCleaner.remove_stopwords
    cl_calls,       \* number of TextCleaner.clean calls that have returned
    cl_text,        \* the text given to the first call
    cl_cleaned,     \* the text the first call returned
    cl_recleaned,   \* the text returned by the second call, made on cl_cleaned
    yr_method,      \* the extractor method called last ("init" before any call)
    yr_text,        \* the text it was called with
    yr_result,      \* the dict with the years of experience it found
    pl_pc,          \* the step EnhancedResumeAnalyzer.analyze has reached
    pl_error,       \* the exception analyze has raised ("" for none)
    resume_file,    \* the document at resume_path
    jd_text,        \* the job description given to analyze
    all_skills,     \* the skills dictionary of the analyzer (self.all_skills)
    config,         \* the 'extraction' part of its configuration
    resume_text,    \* resume_data['text']
    jd_text_cleaned,
    traditional_skills,      \* the dict SkillExtractor.extract returned
    resume_experience_raw,   \* the dict extract_years_of_experience returned
    resume_experience,       \* the years taken from it (NoneYears for None)
    all_resume_skills,       \* the dict _merge_skills returned
    jd_analysis,             \* the dict JDSkillExtractor.extract returned
    jd_experience,           \* the years taken from it (NoneYears for None)
    semantic_similarity,     \* the cosine of the two texts, in hundredths
    scores,                  \* the four sub-scores and the final score
    experience_analysis,     \* the dict analyze_experience_gap returned
    emb_method,         \* the Embedder method called last ("init" before any)
    emb_model_fails,    \* the sentence transformer raises when it is called
    emb_text1,          \* the arguments of calculate_similarity
    emb_text2,
    emb_similarity,     \* its result, in hundredths
    emb_resume_skills,  \* the arguments of semantic_skill_match
    emb_jd_skills,
    emb_match,          \* its result
    mx_called,      \* a MatchScorer.calculate_experience_score call has returned
    mx_candidate,   \* its candidate_years argument (NoneYears for None)
    mx_required,    \* its required_years argument (NoneYears for None)
    mx_score,       \* the value it returned
    ms_called,           \* a SimilarityMatcher.match_skills call has returned
    ms_resume_skills,    \* its resume_skills argument
    ms_required_skills,  \* its required_skills argument
    ms_threshold,        \* its threshold argument
    ms_req_order,        \* the order in which the set unmatched_required was iterated
    ms_res_order,        \* the order in which the set unmatched_resume was iterated
    ms_result,           \* the dict it returned
    now,            \* the time datetime.now() returns
    rp_calls        \* the SummaryGenerator.generate_report calls that have returned:
                    \* of each its arguments, the time it was made and the report

exp_vars == <<exp_called, exp_candidate, exp_required, exp_score>>

gap_vars == <<gap_called, gap_candidate, gap_required, gap_analysis>>

sc_vars == <<sc_weights, sc_method, sc_args, sc_warg_none, sc_warg, sc_applied,
             sc_result, sc_error>>

an_vars == <<an_pc, resume_skills_in, required_skills_in, skill_matching,
             similarity_matrix, semantic_skill_match, report>>

cl_vars == <<cl_lowercase, cl_remove_stopwords, cl_calls, cl_text, cl_cleaned,
             cl_recleaned>>

yr_vars == <<yr_method, yr_text, yr_result>>

pl_inputs == <<resume_file, jd_text, all_skills, config>>

pl_extracted == <<pl_error, resume_text, jd_text_cleaned, traditional_skills,
                  resume_experience_raw, resume_experience, all_resume_skills,
                  jd_analysis, jd_experience>>

pl_scored == <<semantic_similarity, scores, experience_analysis>>

pl_vars == <<pl_pc, pl_inputs, pl_extracted, pl_scored>>

emb_vars == <<emb_method, emb_model_fails, emb_text1, emb_text2, emb_similarity,
              emb_resume_skills, emb_jd_skills, emb_match>>

mx_vars == <<mx_called, mx_candidate, mx_required, mx_score>>

ms_vars == <<ms_called, ms_resume_skills, ms_required_skills, ms_threshold,
             ms_req_order, ms_res_order, ms_result>>

rp_vars == <<now, rp_calls>>

\* the variables of the calls made on a scorer, the matcher and the report
\* generator outside analyze
call_vars == <<mx_vars, ms_vars, rp_vars>>

\* the variables of the components outside the scorers and the skill matching
ext_vars == <<cl_vars, yr_vars, pl_vars, emb_vars>>

vars == <<exp_vars, sc_vars, an_vars, gap_vars, ext_vars, call_vars>>

-----------------------------------------------------------------------------
(* Bounds *)

MaxYears == 10
MaxCount == 4
MaxSkills == 2
MaxPieces == 3
MaxMentions == 2

-----------------------------------------------------------------------------
(* Exact rational arithmetic standing for Python float arithmetic *)

Abs(x) == IF x < 0 THEN -x ELSE x

RECURSIVE GCD(_, _)
GCD(a, b) == IF b = 0 THEN a ELSE GCD(b, a % b)

Frac(n, d) ==
    LET s == IF d < 0 THEN -1 ELSE 1
        g == GCD(Abs(n), Abs(d))
    IN  [n |-> (s * n) \div g, d |-> (s * d) \div g]

Num(k) == [n |-> k, d |-> 1]

RatAdd(p, q) == Frac(p.n * q.d + q.n * p.d, p.d * q.d)
RatSub(p, q) == Frac(p.n * q.d - q.n * p.d, p.d * q.d)
RatMul(p, q) == Frac(p.n * q.n, p.d * q.d)
RatLeq(p, q) == p.n * q.d <= q.n * p.d
RatLt(p, q)  == p.n * q.d < q.n * p.d
RatMin(p, q) == IF RatLeq(p, q) THEN p ELSE q
RatMax(p, q) == IF RatLeq(p, q) THEN q ELSE p
RatAbs(p) == [n |-> Abs(p.n), d |-> p.d]

\* floor(10 * q) for a rational q
FloorTenths(q) ==
    LET m == 10 * q.n IN
    IF m >= 0 THEN m \div q.d ELSE -((-m + q.d - 1) \div q.d)

\* round(q, 1): the nearest multiple of 0.1; at an exact tie the binary value
\* of the float decides, so both neighbours are possible
RoundTenths(q) ==
    LET f == FloorTenths(q)
        twice == 2 * (10 * q.n - f * q.d)     \* 2 * (10q - floor(10q)) * q.d
    IN  IF twice < q.d THEN {Frac(f, 10)}
        ELSE IF twice > q.d THEN {Frac(f + 1, 10)}
        ELSE {Frac(f, 10), Frac(f + 1, 10)}

-----------------------------------------------------------------------------
(* ExperienceScorer (src/scoring/experience_scorer.py) *)

NoneYears == -1

Years == 0..MaxYears
OptYears == Years \cup {NoneYears}

\* the shortfall bands of MatchScorer.calculate_experience_score, put in place
\* of those of ExperienceScorer
ExpShortfallScoreAsMatchScorer(ratio) ==
    IF RatLeq(Frac(8, 10), ratio) THEN
        RatAdd(Num(85), RatMul(RatSub(ratio, Frac(8, 10)), Num(75)))
    ELSE IF RatLeq(Frac(6, 10), ratio) THEN
        RatAdd(Num(70), RatMul(RatSub(ratio, Frac(6, 10)), Num(75)))
    ELSE IF RatLeq(Frac(4, 10), ratio) THEN
        RatAdd(Num(50), RatMul(RatSub(ratio, Frac(4, 10)), Num(100)))
    ELSE RatMul(ratio, Num(125))

\* the ratio computed at line 113 and its float comparisons at lines 115-126
ExpShortfallScore(ratio) ==
    IF RatLeq(Frac(8, 10), ratio) THEN
        RatAdd(Num(80), RatMul(RatSub(ratio, Frac(8, 10)), Num(50)))
    ELSE IF RatLeq(Frac(6, 10), ratio) THEN
        RatAdd(Num(60), RatMul(RatSub(ratio, Frac(6, 10)), Num(100)))
    ELSE IF RatLeq(Frac(4, 10), ratio) THEN
        RatAdd(Num(40), RatMul(RatSub(ratio, Frac(4, 10)), Num(100)))
    ELSE RatMul(ratio, Num(100))

\* the surplus bands with their upper ends left out
ExpSurplusScoreStrict(candidate_years, required_years) ==
    IF 2 * candidate_years < 3 * required_years THEN Num(100)
    ELSE IF candidate_years < required_years * 2 THEN Num(95)
    ELSE Num(85)

\* lines 100-110: candidate_years >= required_years
ExpSurplusScore(candidate_years, required_years) ==
    IF 2 * candidate_years <= 3 * required_years THEN Num(100)
    ELSE IF candidate_years <= required_years * 2 THEN Num(95)
    ELSE Num(85)

\* the unknown-candidate test made before the no-requirement test
ExpCalculateExperienceScoreCandidateFirst(candidate_years, required_years) ==
    IF candidate_years = NoneYears THEN Num(50)
    ELSE IF required_years = NoneYears \/ required_years = 0 THEN Num(70)
    ELSE IF candidate_years >= required_years
         THEN ExpSurplusScore(candidate_years, required_years)
         ELSE ExpShortfallScore(Frac(candidate_years, required_years))

\* a requirement of 0 years scored as a requirement that is met
ExpCalculateExperienceScoreZeroMet(candidate_years, required_years) ==
    IF required_years = NoneYears THEN Num(70)
    ELSE IF candidate_years = NoneYears THEN Num(50)
    ELSE IF candidate_years >= required_years
         THEN ExpSurplusScore(candidate_years, required_years)
         ELSE ExpShortfallScore(Frac(candidate_years, required_years))

\* calculate_experience_score, lines 76-126
ExpCalculateExperienceScore(candidate_years, required_years) ==
    IF required_years = NoneYears \/ required_years = 0 THEN Num(70)
    ELSE IF candidate_years = NoneYears THEN Num(50)
    ELSE IF candidate_years >= required_years
         THEN ExpSurplusScore(candidate_years, required_years)
         ELSE ExpShortfallScore(Frac(candidate_years, required_years))

ExpInit ==
    /\ exp_called = FALSE
    /\ exp_candidate = NoneYears
    /\ exp_required = NoneYears
    /\ exp_score = Num(0)

\* one call of exp_scorer.calculate_experience_score(candidate_years, required_years)
CalculateExperienceScore ==
    \E c \in OptYears, r \in OptYears :
        /\ exp_called' = TRUE
        /\ exp_candidate' = c
        /\ exp_required' = r
        /\ exp_score' = ExpCalculateExperienceScore(c, r)
        /\ UNCHANGED <<sc_vars, an_vars, gap_vars, ext_vars, call_vars>>

\* the dict analyze_experience_gap starts from, lines 143-151 (the message,
\* a text built from the two arguments, is left out)
GapInitialAnalysis(candidate_years, required_years) ==
    [candidate_experience |->
         IF candidate_years = NoneYears \/ candidate_years = 0 THEN 0 ELSE candidate_years,
     required_experience |->
         IF required_years = NoneYears \/ required_years = 0 THEN 0 ELSE required_years,
     gap |-> 0,
     gap_percentage |-> Num(0),
     status |-> "unknown",
     recommendation |-> ""]

\* the classification with the last shortfall band left unclassified
GapStatusLargeGapLeftOut(candidate_years, required_years) ==
    IF candidate_years >= required_years THEN
        IF 2 * candidate_years <= 3 * required_years THEN "meets_requirement"
        ELSE IF candidate_years <= required_years * 2 THEN "exceeds_requirement"
        ELSE "highly_experienced"
    ELSE LET ratio == Frac(candidate_years, required_years) IN
        IF RatLeq(Frac(8, 10), ratio) THEN "close_match"
        ELSE IF RatLeq(Frac(6, 10), ratio) THEN "moderate_gap"
        ELSE IF RatLeq(Frac(4, 10), ratio) THEN "significant_gap"
        ELSE "unknown"

\* lines 171-202: the status of a known candidate against a positive requirement
GapStatus(candidate_years, required_years) ==
    IF candidate_years >= required_years THEN
        IF 2 * candidate_years <= 3 * required_years THEN "meets_requirement"
        ELSE IF candidate_years <= required_years * 2 THEN "exceeds_requirement"
        ELSE "highly_experienced"
    ELSE LET ratio == Frac(candidate_years, required_years) IN
        IF RatLeq(Frac(8, 10), ratio) THEN "close_match"
        ELSE IF RatLeq(Frac(6, 10), ratio) THEN "moderate_gap"
        ELSE IF RatLeq(Frac(4, 10), ratio) THEN "significant_gap"
        ELSE "large_gap"

\* the recommendation text assigned together with each status, lines 153-202
GapRecommendation(status) ==
    CASE status = "no_requirement" -> "Highlight relevant skills and projects"
      [] status = "not_found" -> "Add clear experience timeline to resume"
      [] status = "meets_requirement" -> "Strong match - emphasize relevant achievements"
      [] status = "exceeds_requirement" -> "Highlight leadership and mentoring capabilities"
      [] status = "highly_experienced" ->
             "May be overqualified - emphasize continued growth motivation"
      [] status = "close_match" -> "Emphasize rapid learning and relevant project impact"
      [] status = "moderate_gap" ->
             "Highlight transferable skills and intensive learning experiences"
      [] status = "significant_gap" ->
             "Focus on relevant certifications, bootcamps, and project portfolio"
      [] status = "large_gap" ->
             "Consider entry-level positions or intensive training programs"
      [] OTHER -> ""

\* analyze_experience_gap, lines 128-204
ExpAnalyzeExperienceGap(candidate_years, required_years) ==
    LET analysis == GapInitialAnalysis(candidate_years, required_years) IN
    IF required_years = NoneYears \/ required_years = 0 THEN
        [analysis EXCEPT !.status = "no_requirement",
                         !.recommendation = GapRecommendation("no_requirement")]
    ELSE IF candidate_years = NoneYears THEN
        [analysis EXCEPT !.status = "not_found",
                         !.recommendation = GapRecommendation("not_found")]
    ELSE
        LET gap == required_years - candidate_years
            status == GapStatus(candidate_years, required_years)
        IN  [analysis EXCEPT
                !.gap = gap,
                !.gap_percentage =
                    IF candidate_years > 0 THEN Frac(gap * 100, required_years)
                    ELSE Num(0),
                !.status = status,
                !.recommendation = GapRecommendation(status)]

GapInit ==
    /\ gap_called = FALSE
    /\ gap_candidate = NoneYears
    /\ gap_required = NoneYears
    /\ gap_analysis = GapInitialAnalysis(NoneYears, NoneYears)

\* one call of exp_scorer.analyze_experience_gap(candidate_years, required_years)
AnalyzeExperienceGap ==
    \E c \in OptYears, r \in OptYears :
        /\ gap_called' = TRUE
        /\ gap_candidate' = c
        /\ gap_required' = r
        /\ gap_analysis' = ExpAnalyzeExperienceGap(c, r)
        /\ UNCHANGED <<exp_vars, sc_vars, an_vars, ext_vars, call_vars>>

-----------------------------------------------------------------------------
(* MatchScorer (src/scoring/match_scorer.py) *)

\* A weights dict is a function from a set of key strings to floats.
DefaultWeights ==
    [skills |-> Frac(4, 10), semantic |-> Frac(3, 10),
     experience |-> Frac(2, 10), qualifications |-> Frac(1, 10)]

EmptyDict == [k \in {} |-> Num(0)]

\* The dicts callers hand to set_weights or pass as the weights argument.
WeightInputs ==
    { DefaultWeights,
      [skills |-> Frac(5, 10), semantic |-> Frac(2, 10),
       experience |-> Frac(2, 10), qualifications |-> Frac(1, 10)],
      [skills |-> Frac(405, 1000), semantic |-> Frac(3, 10),
       experience |-> Frac(2, 10), qualifications |-> Frac(1, 10)],
      [skills |-> Frac(15, 10), semantic |-> Frac(-5, 10),
       experience |-> Num(0), qualifications |-> Num(0)],
      [skills |-> Num(1)],
      [skills |-> Frac(5, 10), semantic |-> Frac(5, 10),
       experience |-> Frac(5, 10), qualifications |-> Frac(5, 10)],
      EmptyDict }

\* The values callers pass as the weights argument of calculate_final_score
\* (besides None).
CallWeightInputs ==
    { [skills |-> Frac(15, 10), semantic |-> Frac(-5, 10),
       experience |-> Num(0), qualifications |-> Num(0)],
      [skills |-> Num(1)],
      EmptyDict }

\* The sub-scores callers pass to calculate_final_score.
ScoreInputs == {Num(0), Frac(662, 10), Num(100)}

Counts == 0..MaxCount

RECURSIVE SumOver(_, _)
SumOver(w, keys) ==
    IF keys = {} THEN Num(0)
    ELSE LET k == CHOOSE x \in keys : TRUE
         IN  RatAdd(w[k], SumOver(w, keys \ {k}))

\* sum(weights.values()), line 26
SumValues(w) == SumOver(w, DOMAIN w)

\* abs(total - 1.0), line 27
SumError(w) == RatAbs(RatSub(SumValues(w), Num(1)))

\* line 27: abs(total - 1.0) > 0.01.  Where the exact difference is 0.01 the
\* rounding of the float sum decides the comparison, so both outcomes are
\* possible there.
MustReject(w) == RatLt(Frac(1, 100), SumError(w))
MayReject(w)  == RatLeq(Frac(1, 100), SumError(w))

\* w.get(key, default), lines 196-199
Get(w, key, default) == IF key \in DOMAIN w THEN w[key] ELSE default

\* lines 186, 196-199: the factors applied to the four sub-scores
AppliedWeights(stored, warg_none, warg) ==
    LET w == IF warg_none \/ warg = EmptyDict THEN stored ELSE warg
    IN  [skills         |-> Get(w, "skills", Frac(4, 10)),
         semantic       |-> Get(w, "semantic", Frac(3, 10)),
         experience     |-> Get(w, "experience", Frac(2, 10)),
         qualifications |-> Get(w, "qualifications", Frac(1, 10))]

\* the weighted sum returned as it is, neither clamped nor rounded
FinalScoresUnrounded(a, skill_score, semantic_score, experience_score, qualification_score) ==
    { RatAdd(RatAdd(RatMul(skill_score, a.skills),
                    RatMul(semantic_score, a.semantic)),
             RatAdd(RatMul(experience_score, a.experience),
                    RatMul(qualification_score, a.qualifications))) }

\* lines 195-205: weighted sum, clamp to [0,100], round(_, 1)
FinalScores(a, skill_score, semantic_score, experience_score, qualification_score) ==
    LET final_score ==
            RatAdd(RatAdd(RatAdd(RatMul(skill_score, a.skills),
                                 RatMul(semantic_score, a.semantic)),
                          RatMul(experience_score, a.experience)),
                   RatMul(qualification_score, a.qualifications))
    IN  RoundTenths(RatMax(Num(0), RatMin(final_score, Num(100))))

\* a fuzzy match counted as a full match
SkillMatchScoresFuzzyFull(matched_count, required_count, fuzzy_matched_count) ==
    IF required_count = 0 THEN {Num(100)}
    ELSE LET total_matched == RatAdd(Num(matched_count), Num(fuzzy_matched_count))
             match_rate == RatMin(RatMul(total_matched, Frac(1, required_count)), Num(1))
         IN  RoundTenths(RatMul(match_rate, Num(100)))

\* no vacuous satisfaction: nothing required scores nothing
SkillMatchScoresZeroRequired(matched_count, required_count, fuzzy_matched_count) ==
    IF required_count = 0 THEN {Num(0)}
    ELSE LET total_matched ==
                 RatAdd(Num(matched_count), RatMul(Num(fuzzy_matched_count), Frac(8, 10)))
             match_rate == RatMin(RatMul(total_matched, Frac(1, required_count)), Num(1))
         IN  RoundTenths(RatMul(match_rate, Num(100)))

\* calculate_skill_match_score, lines 48-58
SkillMatchScores(matched_count, required_count, fuzzy_matched_count) ==
    IF required_count = 0 THEN {Num(100)}
    ELSE LET total_matched ==
                 RatAdd(Num(matched_count), RatMul(Num(fuzzy_matched_count), Frac(8, 10)))
             match_rate == RatMin(RatMul(total_matched, Frac(1, required_count)), Num(1))
         IN  RoundTenths(RatMul(match_rate, Num(100)))

\* __init__, lines 10-17
ScInit ==
    /\ sc_weights = DefaultWeights
    /\ sc_method = "init"
    /\ sc_args = <<>>
    /\ sc_warg_none = TRUE
    /\ sc_warg = EmptyDict
    /\ sc_applied = AppliedWeights(DefaultWeights, TRUE, EmptyDict)
    /\ sc_result = Num(0)
    /\ sc_error = FALSE

\* the new dict stored before its sum is validated
SetWeightsStoreFirst(weights, rejected) == weights

\* set_weights, lines 26-29: the dict held by self.weights when the call ends
SetWeightsStore(weights, rejected) == IF rejected THEN sc_weights ELSE weights

\* scorer.set_weights(weights)
SetWeights ==
    \E weights \in WeightInputs, rejected \in BOOLEAN :
        /\ rejected => MayReject(weights)
        /\ ~rejected => ~MustReject(weights)
        /\ sc_weights' = SetWeightsStore(weights, rejected)
        /\ sc_error' = rejected
        /\ sc_method' = "set_weights"
        /\ sc_args' = <<>>
        /\ sc_warg_none' = FALSE
        /\ sc_warg' = weights
        /\ sc_result' = Num(0)
        /\ UNCHANGED sc_applied

\* scorer.calculate_final_score(skill, semantic, experience, qualification[, weights])
CalculateFinalScore ==
    \E s \in ScoreInputs, m \in ScoreInputs, e \in ScoreInputs, q \in ScoreInputs,
       warg_none \in BOOLEAN, warg \in CallWeightInputs :
        /\ warg_none => warg = EmptyDict
        /\ LET a == AppliedWeights(sc_weights, warg_none, warg) IN
            /\ sc_applied' = a
            /\ sc_result' \in FinalScores(a, s, m, e, q)
        /\ sc_method' = "calculate_final_score"
        /\ sc_args' = <<s, m, e, q>>
        /\ sc_warg_none' = warg_none
        /\ sc_warg' = warg
        /\ sc_error' = FALSE
        /\ UNCHANGED sc_weights

\* scorer.calculate_skill_match_score(matched_count, required_count, fuzzy_matched_count)
CalculateSkillMatchScore ==
    \E matched_count \in Counts, required_count \in Counts, fuzzy_matched_count \in Counts :
        /\ sc_result' \in SkillMatchScores(matched_count, required_count, fuzzy_matched_count)
        /\ sc_method' = "calculate_skill_match_score"
        /\ sc_args' = <<matched_count, required_count, fuzzy_matched_count>>
        /\ sc_warg_none' = TRUE
        /\ sc_warg' = EmptyDict
        /\ sc_error' = FALSE
        /\ UNCHANGED <<sc_weights, sc_applied>>

-----------------------------------------------------------------------------
(* Strings: a str is a sequence of one-character strings *)

Max(a, b) == IF a >= b THEN a ELSE b

Range(f) == {f[i] : i \in DOMAIN f}

UpperLetters ==
    <<"A", "B", "C", "D", "E", "F", "G", "H", "I", "J", "K", "L", "M",
      "N", "O", "P", "Q", "R", "S", "T", "U", "V", "W", "X", "Y", "Z">>

LowerLetters ==
    <<"a", "b", "c", "d", "e", "f", "g", "h", "i", "j", "k", "l", "m",
      "n", "o", "p", "q", "r", "s", "t", "u", "v", "w", "x", "y", "z">>

\* str.lower() of one character
LowerChar(ch) ==
    IF \E i \in 1..26 : UpperLetters[i] = ch
    THEN LowerLetters[CHOOSE i \in 1..26 : UpperLetters[i] = ch]
    ELSE ch

Lower(str) == [i \in 1..Len(str) |-> LowerChar(str[i])]

\* the whitespace characters (\s of the regular expressions)
SpaceChars == {" ", "\n", "\t"}

\* the positions of str that hold no whitespace
NonSpaces(str) == {i \in 1..Len(str) : str[i] \notin SpaceChars}

\* str.lstrip(): str from its first character that is no whitespace
LStrip(str) ==
    IF NonSpaces(str) = {} THEN <<>>
    ELSE SubSeq(str, CHOOSE i \in NonSpaces(str) : \A j \in NonSpaces(str) : i <= j,
                Len(str))

\* str.rstrip(): str up to its last character that is no whitespace
RStrip(str) ==
    IF NonSpaces(str) = {} THEN <<>>
    ELSE SubSeq(str, 1,
                CHOOSE i \in NonSpaces(str) : \A j \in NonSpaces(str) : j <= i)

\* str.strip(): str from its first to its last character that is no whitespace
Strip(str) ==
    IF NonSpaces(str) = {} THEN <<>>
    ELSE SubSeq(str, CHOOSE i \in NonSpaces(str) : \A j \in NonSpaces(str) : i <= j,
                CHOOSE i \in NonSpaces(str) : \A j \in NonSpaces(str) : j <= i)

\* One row of the longest-common-subsequence table, as a sequence: prev is the
\* row before it and ch the character of the row. Entry col is the length for
\* the first col - 1 characters of b: ch is left out (prev[col]) or is matched
\* with an equal character b[i] among them (prev[i] + 1).
LcsRow(prev, ch, b) ==
    SubSeq([col \in 1..(Len(b) + 1) |->
               CHOOSE best \in 0..Len(b) :
                   /\ \/ best = prev[col]
                      \/ \E i \in 1..(col - 1) : b[i] = ch /\ best = prev[i] + 1
                   /\ best >= prev[col]
                   /\ \A i \in 1..(col - 1) : b[i] = ch => best >= prev[i] + 1],
           1, Len(b) + 1)

\* rows holds the rows of the table for the first Len(rows) - 1 characters of a
RECURSIVE LcsRows(_, _, _)
LcsRows(a, b, rows) ==
    IF Len(rows) = Len(a) + 1 THEN rows[Len(rows)][Len(b) + 1]
    ELSE LcsRows(a, b, Append(rows, LcsRow(rows[Len(rows)], a[Len(rows)], b)))

\* number of matching characters M of the two strings
LcsLen(a, b) == LcsRows(a, b, <<[j \in 1..(Len(b) + 1) |-> 0]>>)

\* int(round(num / den)) for num >= 0, den > 0; an exact half goes to the even
\* neighbour
RoundHalfEven(num, den) ==
    LET f == num \div den
        twice == 2 * (num - f * den)
    IN  IF twice < den THEN f
        ELSE IF twice > den THEN f + 1
        ELSE IF f % 2 = 0 THEN f ELSE f + 1

\* fuzzywuzzy fuzz.ratio(s1, s2): 100 for equal strings, 0 when one is empty,
\* otherwise int(round(100 * 2*M / (len(s1) + len(s2))))
FuzzRatio(s1, s2) ==
    IF s1 = s2 THEN 100
    ELSE IF Len(s1) = 0 \/ Len(s2) = 0 THEN 0
    ELSE RoundHalfEven(200 * LcsLen(s1, s2), Len(s1) + Len(s2))

\* all sequences of at most n distinct elements of S
InjSeqs(S, n) ==
    UNION { { q \in [1..k -> S] : \A i, j \in 1..k : i # j => q[i] # q[j] } : k \in 0..n }

\* all orders in which the elements of the set S can be iterated
Orders(S) ==
    { q \in [1..Cardinality(S) -> S] : \A i, j \in 1..Cardinality(S) : i # j => q[i] # q[j] }

\* the sequence without its i-th element
RemoveAt(q, i) == SubSeq(q, 1, i - 1) \o SubSeq(q, i + 1, Len(q))

-----------------------------------------------------------------------------
(* SimilarityMatcher.match_skills (src/processing/similarity_matcher.py) *)

\* lines 41-42: [s.lower().strip() for s in skills if s]
NormalizeList(skills) ==
    LET kept == SelectSeq(skills, LAMBDA x : x # <<>>)
    IN  [i \in 1..Len(kept) |-> Strip(Lower(kept[i]))]

\* the scan with a later candidate of equal score taking the place of an
\* earlier one
RECURSIVE BestMatchScanLastWins(_, _, _, _, _, _)
BestMatchScanLastWins(req_skill, pool, threshold, i, best_match, best_score) ==
    IF i > Len(pool) THEN [idx |-> best_match, score |-> best_score]
    ELSE LET score == FuzzRatio(req_skill, pool[i])
         IN  IF score >= threshold /\ score >= best_score /\ score > 0
             THEN BestMatchScanLastWins(req_skill, pool, threshold, i + 1, i, score)
             ELSE BestMatchScanLastWins(req_skill, pool, threshold, i + 1, best_match, best_score)

\* lines 59-67: the index in pool (the remaining resume skills in iteration
\* order) of the best match of req_skill, 0 when best_match stays None
RECURSIVE BestMatchScan(_, _, _, _, _, _)
BestMatchScan(req_skill, pool, threshold, i, best_match, best_score) ==
    IF i > Len(pool) THEN [idx |-> best_match, score |-> best_score]
    ELSE LET score == FuzzRatio(req_skill, pool[i])
         IN  IF score >= threshold /\ score > best_score
             THEN BestMatchScan(req_skill, pool, threshold, i + 1, i, score)
             ELSE BestMatchScan(req_skill, pool, threshold, i + 1, best_match, best_score)

\* lines 58-76: the loop over unmatched_required in iteration order req_order;
\* pool is unmatched_resume in its iteration order
RECURSIVE FuzzyLoop(_, _, _, _)
FuzzyLoop(req_order, pool, threshold, fuzzy_pairs) ==
    IF req_order = <<>> THEN [fuzzy_pairs |-> fuzzy_pairs, unmatched_resume |-> pool]
    ELSE LET req_skill == Head(req_order)
             best == BestMatchScan(req_skill, pool, threshold, 1, 0, 0)
         IN  IF best.idx # 0 /\ pool[best.idx] # <<>>
             THEN FuzzyLoop(Tail(req_order), RemoveAt(pool, best.idx), threshold,
                            Append(fuzzy_pairs, [required |-> req_skill,
                                                 resume |-> pool[best.idx],
                                                 score |-> best.score]))
             ELSE FuzzyLoop(Tail(req_order), pool, threshold, fuzzy_pairs)

\* match_skills, lines 37-93, for one iteration order of each working set.
\* matched_exact, missing and extra are lists made from sets (no duplicates,
\* unspecified order) and are kept as sets.
MatchSkillsResult(resume_skills, required_skills, threshold, req_order, res_order) ==
    LET resume_skills_normalized == NormalizeList(resume_skills)
        required_skills_normalized == NormalizeList(required_skills)
        resume_set == Range(resume_skills_normalized)
        required_set == Range(required_skills_normalized)
        matched_exact == resume_set \cap required_set
        unmatched_required == required_set \ matched_exact
        loop == FuzzyLoop(req_order, res_order, threshold, <<>>)
        matched_fuzzy == [i \in 1..Len(loop.fuzzy_pairs) |-> loop.fuzzy_pairs[i].required]
        total_matched == Cardinality(matched_exact) + Len(matched_fuzzy)
    IN  [matched_exact |-> matched_exact,
         matched_fuzzy |-> matched_fuzzy,
         fuzzy_pairs |-> loop.fuzzy_pairs,
         missing |-> unmatched_required \ Range(matched_fuzzy),
         extra |-> Range(loop.unmatched_resume),
         total_required |-> Len(required_skills_normalized),
         total_matched |-> total_matched,
         match_percentage |->
             IF Len(required_skills_normalized) # 0
             THEN RatMul(Frac(total_matched, Len(required_skills_normalized)), Num(100))
             ELSE Num(0)]

\* the results match_skills can return: one for each iteration order of the
\* sets unmatched_required (line 58) and unmatched_resume (line 62)
MatchSkillsResults(resume_skills, required_skills, threshold) ==
    LET resume_set == Range(NormalizeList(resume_skills))
        required_set == Range(NormalizeList(required_skills))
    IN  { MatchSkillsResult(resume_skills, required_skills, threshold, req_order, res_order) :
              req_order \in Orders(required_set \ resume_set),
              res_order \in Orders(resume_set \ required_set) }

-----------------------------------------------------------------------------
(* Embedder.semantic_skill_match (src/processing/embedder.py) *)

\* lines 134-135: [str(s).strip() for s in skills if s and str(s).strip()]
CleanList(skills) ==
    LET kept == SelectSeq(skills, LAMBDA x : x # <<>> /\ Strip(x) # <<>>)
    IN  [i \in 1..Len(kept) |-> Strip(kept[i])]

\* lines 171-182: the index of the best unused resume skill for jd_idx, 0 for
\* best_resume_idx = -1
RECURSIVE BestResumeScan(_, _, _, _, _, _, _, _)
BestResumeScan(sim, n_resume, jd_idx, threshold, matched_resume_idx, resume_idx, best_resume_idx, best_score) ==
    IF resume_idx > n_resume THEN [idx |-> best_resume_idx, score |-> best_score]
    ELSE IF resume_idx \in matched_resume_idx
    THEN BestResumeScan(sim, n_resume, jd_idx, threshold, matched_resume_idx,
                        resume_idx + 1, best_resume_idx, best_score)
    ELSE LET score == sim[resume_idx][jd_idx]
         IN  IF score >= threshold /\ score > best_score
             THEN BestResumeScan(sim, n_resume, jd_idx, threshold, matched_resume_idx,
                                 resume_idx + 1, resume_idx, score)
             ELSE BestResumeScan(sim, n_resume, jd_idx, threshold, matched_resume_idx,
                                 resume_idx + 1, best_resume_idx, best_score)

\* lines 170-192: the loop over the JD skills in list order
RECURSIVE SemanticLoop(_, _, _, _, _, _, _, _)
SemanticLoop(sim, resume_skills, jd_skills, threshold, jd_idx, semantic_pairs, matched_resume_idx, matched_jd_idx) ==
    IF jd_idx > Len(jd_skills)
    THEN [semantic_pairs |-> semantic_pairs,
          matched_resume_idx |-> matched_resume_idx,
          matched_jd_idx |-> matched_jd_idx]
    ELSE LET best == BestResumeScan(sim, Len(resume_skills), jd_idx, threshold,
                                    matched_resume_idx, 1, 0, 0)
         IN  IF best.idx >= 1
             THEN SemanticLoop(sim, resume_skills, jd_skills, threshold, jd_idx + 1,
                               Append(semantic_pairs,
                                      [jd_skill |-> jd_skills[jd_idx],
                                       resume_skill |-> resume_skills[best.idx],
                                       similarity |-> best.score]),
                               matched_resume_idx \cup {best.idx},
                               matched_jd_idx \cup {jd_idx})
             ELSE SemanticLoop(sim, resume_skills, jd_skills, threshold, jd_idx + 1,
                               semantic_pairs, matched_resume_idx, matched_jd_idx)

\* the elements of q whose index is not in idxs, in order
RECURSIVE WithoutIdx(_, _, _)
WithoutIdx(q, idxs, i) ==
    IF i > Len(q) THEN <<>>
    ELSE IF i \in idxs THEN WithoutIdx(q, idxs, i + 1)
    ELSE <<q[i]>> \o WithoutIdx(q, idxs, i + 1)

\* semantic_skill_match, lines 124-203, given the cosine similarities (in
\* hundredths) of the cleaned lists: sim[resume_idx][jd_idx]
SemanticSkillMatchResult(resume_skills, jd_skills, threshold, sim) ==
    IF resume_skills = <<>> \/ jd_skills = <<>>
    THEN [matched |-> <<>>, semantic_pairs |-> <<>>,
          unmatched_jd |-> jd_skills, unmatched_resume |-> resume_skills]
    ELSE LET resume_clean == CleanList(resume_skills)
             jd_clean == CleanList(jd_skills)
         IN  IF resume_clean = <<>> \/ jd_clean = <<>>
             THEN [matched |-> <<>>, semantic_pairs |-> <<>>,
                   unmatched_jd |-> jd_clean, unmatched_resume |-> resume_clean]
             ELSE LET loop == SemanticLoop(sim, resume_clean, jd_clean, threshold, 1,
                                           <<>>, {}, {})
                  IN  [matched |-> [i \in 1..Len(loop.semantic_pairs) |->
                                        loop.semantic_pairs[i].jd_skill],
                       semantic_pairs |-> loop.semantic_pairs,
                       unmatched_jd |-> WithoutIdx(jd_clean, loop.matched_jd_idx, 1),
                       unmatched_resume |-> WithoutIdx(resume_clean, loop.matched_resume_idx, 1)]

\* Cosine similarities (in hundredths) the embedding model can give two
\* different skill names: one below and one above the threshold.
SimLevels == {50, 80}

\* line 162: the matrices util.cos_sim can return for the two cleaned lists:
\* 1.0 for equal strings, symmetric, any level otherwise
SimilarityMatrices(resume_clean, jd_clean) ==
    { sim \in [1..Len(resume_clean) -> [1..Len(jd_clean) -> SimLevels \cup {100}]] :
        /\ \A i \in 1..Len(resume_clean), j \in 1..Len(jd_clean) :
               (sim[i][j] = 100) <=> (resume_clean[i] = jd_clean[j])
        /\ \A i, k \in 1..Len(resume_clean), j, l \in 1..Len(jd_clean) :
               ({resume_clean[i], jd_clean[j]} = {resume_clean[k], jd_clean[l]})
                   => sim[i][j] = sim[k][l] }

-----------------------------------------------------------------------------
(* EnhancedResumeAnalyzer.analyze (src/main_enhanced.py), skill matching *)

FuzzyThreshold == 85
SemanticThreshold == 70

css  == <<"c", "s", "s">>
CSS_ == <<"C", "S", "S", " ">>
css3 == <<"c", "s", "s", "3">>
sql  == <<"s", "q", "l">>

\* The skill names that occur in the lists analyze hands to the matchers.
AnalyzePool == {css, CSS_, css3, sql}

EmptyMatching ==
    [matched_exact |-> {}, matched_fuzzy |-> <<>>, fuzzy_pairs |-> <<>>,
     missing |-> {}, extra |-> {}, total_required |-> 0, total_matched |-> 0,
     match_percentage |-> Num(0)]

EmptySemantic ==
    [matched |-> <<>>, semantic_pairs |-> <<>>, unmatched_jd |-> <<>>,
     unmatched_resume |-> <<>>]

EmptyReport ==
    [matched_exact |-> {}, matched_fuzzy |-> <<>>, matched_semantic |-> <<>>,
     missing |-> {}, extra |-> {}, total_matched |-> 0, total_required |-> 0,
     match_rate |-> Num(0)]

\* no analysis is running
AnIdle ==
    /\ an_pc = "idle"
    /\ resume_skills_in = <<>>
    /\ required_skills_in = <<>>
    /\ skill_matching = EmptyMatching
    /\ similarity_matrix = <<>>
    /\ semantic_skill_match = EmptySemantic
    /\ report = EmptyReport

\* analyze has extracted the two skill lists (lines 382, 387): each is made
\* from a set or from dict keys, so it has no repeated element
AnStart ==
    /\ an_pc = "start"
    /\ resume_skills_in \in InjSeqs(AnalyzePool, MaxSkills)
    /\ required_skills_in \in InjSeqs(AnalyzePool, MaxSkills)
    /\ skill_matching = EmptyMatching
    /\ similarity_matrix = <<>>
    /\ semantic_skill_match = EmptySemantic
    /\ report = EmptyReport

\* lines 400-404: self.matcher.match_skills(all_resume_skills['skills'], required_skills, ...)
MatchSkills ==
    /\ an_pc = "start"
    /\ skill_matching' \in MatchSkillsResults(resume_skills_in, required_skills_in,
                                              FuzzyThreshold)
    /\ an_pc' = "matched"
    /\ UNCHANGED <<resume_skills_in, required_skills_in, similarity_matrix,
                   semantic_skill_match, report>>

\* lines 415-419: self.embedder.semantic_skill_match(all_resume_skills['skills'],
\* required_skills, ...)
SemanticSkillMatch ==
    /\ an_pc = "matched"
    /\ \E sim \in SimilarityMatrices(CleanList(resume_skills_in),
                                     CleanList(required_skills_in)) :
           /\ similarity_matrix' = sim
           /\ semantic_skill_match' =
                  SemanticSkillMatchResult(resume_skills_in, required_skills_in,
                                           SemanticThreshold, sim)
    /\ an_pc' = "semantic_matched"
    /\ UNCHANGED <<resume_skills_in, required_skills_in, skill_matching, report>>

\* SummaryGenerator._calculate_match_rate, summary_generator.py lines 145-149
MatchRates(matched, total) ==
    IF total = 0 THEN {Num(0)}
    ELSE RoundTenths(RatMul(Frac(matched, total), Num(100)))

\* lines 460-470 and summary_generator.py lines 98-110: the skills_analysis
\* part of the report
SkillsAnalysis(matching, semantic, match_rate) ==
    [matched_exact |-> matching.matched_exact,
     matched_fuzzy |-> matching.matched_fuzzy,
     matched_semantic |-> semantic.matched,
     missing |-> matching.missing,
     extra |-> matching.extra,
     total_matched |-> Cardinality(matching.matched_exact) + Len(matching.matched_fuzzy)
                           + Len(semantic.matched),
     total_required |-> Cardinality(matching.matched_exact) + Len(matching.matched_fuzzy)
                            + Len(semantic.matched) + Cardinality(matching.missing),
     match_rate |-> match_rate]

\* lines 460-477: self.summary_gen.generate_report(...)
GenerateReport ==
    /\ an_pc = "semantic_matched"
    /\ \E match_rate \in
           MatchRates(Cardinality(skill_matching.matched_exact)
                          + Len(skill_matching.matched_fuzzy)
                          + Len(semantic_skill_match.matched),
                      Cardinality(skill_matching.matched_exact)
                          + Len(skill_matching.matched_fuzzy)
                          + Len(semantic_skill_match.matched)
                          + Cardinality(skill_matching.missing)) :
           report' = SkillsAnalysis(skill_matching, semantic_skill_match, match_rate)
    /\ an_pc' = "done"
    /\ UNCHANGED <<resume_skills_in, required_skills_in, skill_matching,
                   similarity_matrix, semantic_skill_match>>

-----------------------------------------------------------------------------
(* Texts and the regular expressions the repository applies to them *)

\* characters outside ASCII are named by their code points
Bullet == "U+2022"
NTilde == "U+00F1"

Digits == {"0", "1", "2", "3", "4", "5", "6", "7", "8", "9"}

Letters == Range(UpperLetters) \cup Range(LowerLetters)

\* \w
WordChars == Letters \cup Digits \cup {"_", NTilde}

\* every character that occurs in a text of the model
Chars ==
    WordChars \cup SpaceChars
        \cup {Bullet, "@", ".", ",", "-", "+", "#", "(", ")", ":", "/"}

\* A regular expression is a sequence of items. An item of kind "rep" repeats
\* a fixed sequence of character classes between min and max times, as many
\* times as possible first (a greedy quantifier); "b" is \b and "bol" is ^
\* under re.MULTILINE.
NoLimit == -1

Rep(classes, min, max) ==
    [kind |-> "rep", classes |-> classes, min |-> min, max |-> max]

WordBoundary == [kind |-> "b", classes |-> <<>>, min |-> 0, max |-> 0]

LineStart == [kind |-> "bol", classes |-> <<>>, min |-> 0, max |-> 0]

Lit(str) == Rep([i \in 1..Len(str) |-> {str[i]}], 1, 1)

Opt(str) == Rep([i \in 1..Len(str) |-> {str[i]}], 0, 1)

Star(class) == Rep(<<class>>, 0, NoLimit)

Plus(class) == Rep(<<class>>, 1, NoLimit)

\* the classes match the characters of the text from position pos on
ClassesMatchAt(classes, text, pos) ==
    /\ pos + Len(classes) - 1 <= Len(text)
    /\ \A i \in 1..Len(classes) : text[pos + i - 1] \in classes[i]

IsWordAt(text, pos) == pos >= 1 /\ pos <= Len(text) /\ text[pos] \in WordChars

\* \b before position pos
WordBoundaryAt(text, pos) == IsWordAt(text, pos - 1) # IsWordAt(text, pos)

\* ^ before position pos
LineStartAt(text, pos) == pos = 1 \/ text[pos - 1] = "\n"

\* repetition number i of the item started at pos matches the text
RepetitionMatches(item, text, pos, i) ==
    ClassesMatchAt(item.classes, text, pos + (i - 1) * Len(item.classes))

\* the number of repetitions the item allows and the text has room for
MostRepetitions(item, text, pos) ==
    IF \/ item.max = NoLimit
       \/ (Len(text) + 1 - pos) \div Len(item.classes) < item.max
    THEN (Len(text) + 1 - pos) \div Len(item.classes)
    ELSE item.max

\* the largest number of repetitions of the item at pos: every repetition up
\* to it matches and the next one does not
GreedyCount(item, text, pos) ==
    CHOOSE n \in 0..MostRepetitions(item, text, pos) :
        /\ \A i \in 1..n : RepetitionMatches(item, text, pos, i)
        /\ \/ n = MostRepetitions(item, text, pos)
           \/ ~RepetitionMatches(item, text, pos, n + 1)

\* the numbers of repetitions a backtracking matcher tries for the item at
\* pos, from the largest one down to the minimum of the item; \b and ^ take
\* no character and are tried once where they hold
ItemCounts(item, text, pos) ==
    IF item.kind = "rep" THEN item.min..GreedyCount(item, text, pos)
    ELSE IF \/ item.kind = "b" /\ WordBoundaryAt(text, pos)
            \/ item.kind = "bol" /\ LineStartAt(text, pos)
    THEN {0}
    ELSE {}

\* the items k, k+1, ... of regex match the text from position pos on
RECURSIVE Matches(_, _, _, _)
Matches(regex, k, text, pos) ==
    \/ k > Len(regex)
    \/ \E count \in ItemCounts(regex[k], text, pos) :
           Matches(regex, k + 1, text, pos + count * Len(regex[k].classes))

\* the number of repetitions of item k in the match found first: the largest
\* one that lets the following items match
FirstCount(regex, k, text, pos) ==
    CHOOSE count \in ItemCounts(regex[k], text, pos) :
        /\ Matches(regex, k + 1, text, pos + count * Len(regex[k].classes))
        /\ \A c \in ItemCounts(regex[k], text, pos) :
               c > count => ~Matches(regex, k + 1, text,
                                     pos + c * Len(regex[k].classes))

\* The match of the items k, k+1, ... of regex at position pos that a
\* backtracking matcher finds first, for items that match there: the start
\* positions of these items followed by the end of the match.
RECURSIVE MatchItems(_, _, _, _)
MatchItems(regex, k, text, pos) ==
    IF k > Len(regex) THEN <<pos>>
    ELSE <<pos>> \o MatchItems(regex, k + 1, text,
             pos + FirstCount(regex, k, text, pos) * Len(regex[k].classes))

\* the end of the match of regex that starts at position start
MatchEnd(regex, text, start) == MatchItems(regex, 1, text, start)[Len(regex) + 1]

\* re.search(regex, text) finds a match
Search(regex, text) ==
    \E pos \in 1..(Len(text) + 1) : Matches(regex, 1, text, pos)

\* the first position from pos on where regex matches, 0 when there is none
NextMatch(regex, text, pos) ==
    LET starts == {p \in pos..Len(text) : Matches(regex, 1, text, p)}
    IN  IF starts = {} THEN 0
        ELSE CHOOSE p \in starts : \A q \in starts : p <= q

\* the text from pos on with every match of regex replaced by repl; start is
\* the first position from pos on where regex matches
RECURSIVE SubFrom(_, _, _, _, _)
SubFrom(regex, repl, text, pos, start) ==
    IF start = 0 THEN SubSeq(text, pos, Len(text))
    ELSE SubSeq(text, pos, start - 1) \o repl
             \o SubFrom(regex, repl, text, MatchEnd(regex, text, start),
                        NextMatch(regex, text, MatchEnd(regex, text, start)))

\* re.sub(regex, repl, text) for a regex that matches no empty string
Sub(regex, repl, text) ==
    IF text = <<>> THEN <<>>
    ELSE SubFrom(regex, repl, text, 1, NextMatch(regex, text, 1))

\* the groups of the matches of regex from pos on; start is the first
\* position from pos on where regex matches
RECURSIVE FindAllFrom(_, _, _, _)
FindAllFrom(regex, group, text, start) ==
    IF start = 0 THEN <<>>
    ELSE <<SubSeq(text, MatchItems(regex, 1, text, start)[group],
                  MatchItems(regex, 1, text, start)[group + 1] - 1)>>
             \o FindAllFrom(regex, group, text,
                            NextMatch(regex, text, MatchEnd(regex, text, start)))

\* re.findall(regex, text) for a regex with one group, the item numbered
\* group, that matches no empty string
FindAll(regex, group, text) ==
    IF text = <<>> THEN <<>>
    ELSE FindAllFrom(regex, group, text, NextMatch(regex, text, 1))

\* text[i..] starts with str
OccursAt(str, text, i) ==
    /\ i + Len(str) - 1 <= Len(text)
    /\ \A k \in 1..Len(str) : text[i + k - 1] = str[k]

Occurs(str, text) == \E i \in 1..(Len(text) + 1) : OccursAt(str, text, i)

DigitValue(ch) == CHOOSE v \in 0..9 : <<"0", "1", "2", "3", "4", "5", "6",
                                        "7", "8", "9">>[v + 1] = ch

\* int(m) for a string of digits
RECURSIVE ToInt(_)
ToInt(m) ==
    IF m = <<>> THEN 0
    ELSE 10 * ToInt(SubSeq(m, 1, Len(m) - 1)) + DigitValue(m[Len(m)])

\* str.split(): the maximal runs of characters that are not whitespace; words
\* holds the runs that end before the first character of text
RECURSIVE Split(_, _)
Split(text, words) ==
    LET rest == LStrip(text)
        ends == {i \in 1..Len(rest) : i = Len(rest) \/ rest[i + 1] \in SpaceChars}
    IN  IF rest = <<>> THEN words
        ELSE LET end == CHOOSE i \in ends : \A j \in ends : i <= j
             IN  Split(SubSeq(rest, end + 1, Len(rest)),
                       Append(words, SubSeq(rest, 1, end)))

\* ' '.join(words)
RECURSIVE Join(_)
Join(words) ==
    IF words = <<>> THEN <<>>
    ELSE IF Len(words) = 1 THEN words[1]
    ELSE words[1] \o <<" ">> \o Join(Tail(words))

-----------------------------------------------------------------------------
(* Years of experience: SkillExtractor.extract_years_of_experience         *)
(* (src/processing/skill_extractor.py) and                                 *)
(* JDSkillExtractor._extract_experience_requirement                        *)
(* (src/processing/jd_skill_extractor.py)                                  *)

\* (\d+)\+?\s*unit s?\s*(?:of)?\s*experience, the group being item 1
YearsOfExperiencePattern(unit) ==
    [regex |-> <<Plus(Digits), Opt(<<"+">>), Star(SpaceChars), Lit(unit),
                 Opt(<<"s">>),
                 Star(SpaceChars), Opt(<<"o", "f">>), Star(SpaceChars),
                                         Lit(<<"e", "x", "p", "e", "r", "i",
                                               "e", "n", "c", "e">>)>>,
     group |-> 1]

\* experience[:\s]*(\d+)\+?\s*years?, the group being item 3
ExperienceYearsPattern ==
    [regex |-> <<Lit(<<"e", "x", "p", "e", "r", "i", "e", "n", "c", "e">>),
                 Star({":"} \cup SpaceChars), Plus(Digits),
                 Opt(<<"+">>), Star(SpaceChars), Lit(<<"y", "e", "a", "r">>),
                       Opt(<<"s">>)>>,
     group |-> 3]

\* minimum\s*(\d+)\s*years?, the group being item 3
MinimumYearsPattern ==
    [regex |-> <<Lit(<<"m", "i", "n", "i", "m", "u", "m">>),
                 Star(SpaceChars), Plus(Digits), Star(SpaceChars),
                 Lit(<<"y", "e", "a", "r">>), Opt(<<"s">>)>>,
     group |-> 3]

\* skill_extractor.py lines 100-104
ResumeYearsPatterns ==
    <<YearsOfExperiencePattern(<<"y", "e", "a", "r">>),
      ExperienceYearsPattern,
      YearsOfExperiencePattern(<<"y", "r">>)>>

\* jd_skill_extractor.py lines 82-86
JdYearsPatterns ==
    <<YearsOfExperiencePattern(<<"y", "e", "a", "r">>),
      ExperienceYearsPattern, MinimumYearsPattern>>

\* the list years after the loop over the patterns: years.extend([int(m) for
\* m in re.findall(pattern, text)]) for each pattern in turn
RECURSIVE YearsFound(_, _)
YearsFound(patterns, text) ==
    IF patterns = <<>> THEN <<>>
    ELSE LET matches == FindAll(Head(patterns).regex, Head(patterns).group, text)
         IN  [i \in 1..Len(matches) |-> ToInt(matches[i])]
                 \o YearsFound(Tail(patterns), text)

\* years[0] taken for max(years)
FirstOf(years) == years[1]

\* max(years)
MaxOf(years) == CHOOSE y \in Range(years) : \A z \in Range(years) : z <= y

\* min(years)
MinOf(years) == CHOOSE y \in Range(years) : \A z \in Range(years) : y <= z

\* SkillExtractor.extract_years_of_experience, lines 90-117
ExtractYearsOfExperience(text) ==
    LET years == YearsFound(ResumeYearsPatterns, Lower(text))
    IN  IF years # <<>>
        THEN [max_years |-> MaxOf(years), total_mentions |-> Len(years)]
        ELSE [max_years |-> 0, total_mentions |-> 0]

\* JDSkillExtractor._extract_experience_requirement, lines 80-100
ExtractExperienceRequirement(text) ==
    LET years == YearsFound(JdYearsPatterns, text)
    IN  IF years # <<>>
        THEN [min_years |-> MinOf(years), max_years |-> MaxOf(years), required |-> TRUE]
        ELSE [min_years |-> 0, max_years |-> 0, required |-> FALSE]

\* The phrases the texts of the model state experience with, or do not.
YearPhrases ==
    {<<"5", " ", "y", "e", "a", "r", "s", " ", "o", "f", " ", "e", "x", "p",
       "e", "r", "i", "e", "n", "c", "e">>, <<"0", " ", "y", "e", "a", "r",
                                              "s", " ", "e", "x", "p", "e",
        "r", "i", "e", "n", "c", "e">>, <<"E", "x", "p", "e", "r", "i", "e",
                                          "n", "c", "e", ":", " ", "3", " ", "y", "e", "a", "r", "s">>,
     <<"1", "0", "+", " ", "y", "r", "s", " ", "e", "x", "p", "e", "r", "i",
       "e", "n", "c", "e">>, <<"M", "i", "n", "i", "m", "u", "m", " ", "2",
                               " ", "y", "e", "a", "r", "s">>, <<"1", "2",
                                                                 "y", "e", "a", "r", " ", "e", "x", "p", "e", "r", "i", "e", "n", "c", "e">>,
     <<"P", "y", "t", "h", "o", "n", " ", "d", "e", "v", "e", "l", "o", "p",
       "e", "r">>, <<"n", "o", " ", "e", "x", "p", "e", "r", "i", "e", "n",
                     "c", "e">>}

\* the texts the extractors are called with: at most MaxMentions phrases
YearTexts ==
    UNION { { Join(phrases) : phrases \in [1..k -> YearPhrases] } : k \in 0..MaxMentions }

\* no extractor has been called
YrIdle ==
    /\ yr_method = "init"
    /\ yr_text = <<>>
    /\ yr_result = [max_years |-> 0, total_mentions |-> 0]

\* a text is at hand and no extractor has been called on it yet
YrStart ==
    /\ yr_method = "init"
    /\ yr_text \in YearTexts
    /\ yr_result = [max_years |-> 0, total_mentions |-> 0]

\* skill_extractor.extract_years_of_experience(text)
ExtractYears ==
    /\ yr_method = "init"
    /\ yr_method' = "extract_years_of_experience"
    /\ yr_result' = ExtractYearsOfExperience(yr_text)
    /\ UNCHANGED yr_text

\* jd_extractor.extract(jd_text)['experience_requirement'], line 37
ExtractRequirement ==
    /\ yr_method = "init"
    /\ yr_method' = "extract"
    /\ yr_result' = ExtractExperienceRequirement(Lower(yr_text))
    /\ UNCHANGED yr_text

-----------------------------------------------------------------------------
(* TextCleaner (src/extraction/text_cleaner.py) *)

\* line 11-17
StopWords ==
    {<<"t", "h", "e">>, <<"a">>, <<"a", "n">>, <<"a", "n", "d">>, <<"o",
       "r">>, <<"b", "u", "t">>, <<"i", "n">>, <<"o", "n">>, <<"a", "t">>,
                <<"t", "o">>, <<"f", "o", "r">>,
     <<"o", "f">>, <<"w", "i", "t", "h">>, <<"b", "y">>, <<"f", "r", "o",
       "m">>, <<"a", "s">>, <<"i", "s">>, <<"w", "a", "s">>, <<"a", "r",
                "e">>, <<"w", "e", "r", "e">>, <<"b", "e", "e", "n">>,
     <<"b", "e">>, <<"h", "a", "v", "e">>, <<"h", "a", "s">>, <<"h", "a",
       "d">>, <<"d", "o">>, <<"d", "o", "e", "s">>, <<"d", "i", "d">>, <<"w",
                "i", "l", "l">>, <<"w", "o", "u", "l", "d">>,
     <<"c", "o", "u", "l", "d">>, <<"s", "h", "o", "u", "l", "d">>, <<"m",
       "a", "y">>, <<"m", "i", "g", "h", "t">>, <<"m", "u", "s", "t">>,
                     <<"c", "a", "n">>, <<"t", "h", "i", "s">>, <<"t", "h",
                       "a", "t">>,
     <<"t", "h", "e", "s", "e">>, <<"t", "h", "o", "s", "e">>, <<"i">>,
       <<"y", "o", "u">>, <<"h", "e">>, <<"s", "h", "e">>, <<"i", "t">>,
         <<"w", "e">>, <<"t", "h", "e", "y">>}

\* line 48: the characters the alternatives after :// accept; the range $-_
\* holds the ASCII characters from $ to _, among them % and the hexadecimal
\* digits of the last alternative
UrlChars ==
    Letters \cup Digits
        \cup {"$", "%", "&", "'", "(", ")", "*", "+", ",", "-", ".", "/", ":", ";",
              "<", "=", ">", "?", "@", "[", "\\", "]", "^", "_", "!"}

\* line 48
url_pattern == <<Lit(<<"h", "t", "t", "p">>), Opt(<<"s">>), Lit(<<":", "/",
                 "/">>), Plus(UrlChars)>>

\* line 53
email_pattern ==
    <<WordBoundary,
      Plus(Letters \cup Digits \cup {".", "_", "%", "+", "-"}),
      Lit(<<"@">>),
      Plus(Letters \cup Digits \cup {".", "-"}),
      Lit(<<".">>),
      Rep(<<Letters \cup {"|"}>>, 2, NoLimit),
      WordBoundary>>

\* lines 64 and 70: the characters of the class as the source file holds
\* them (U+201A, U+00C4, U+00A2, ...); the bullet U+2022 is not among them
BulletClass ==
    {"U+201A", "U+00C4", "U+00A2", "U+00F3", "U+00E8", "U+00E3", NTilde,
     "U+00DD", "U+00B0", "U+2122", "U+00B4"}

\* line 65: the characters the class [^\w\s\n\.\,\-\+\#\(\)] matches
SpecialChars == Chars \ (WordChars \cup SpaceChars \cup {".", ",", "-", "+", "#", "(", ")"})

\* lines 46-49
RemoveUrls(text) == Sub(url_pattern, <<>>, text)

\* lines 51-54
RemoveEmails(text) == Sub(email_pattern, <<>>, text)

\* lines 56-60
NormalizeWhitespace(text) ==
    Sub(<<Plus({"\n"})>>, <<"\n">>, Sub(<<Plus(SpaceChars)>>, <<" ">>, text))

\* lines 62-66
RemoveSpecialChars(text) ==
    Sub(<<Rep(<<SpecialChars>>, 1, 1)>>, <<" ">>,
        Sub(<<Rep(<<BulletClass>>, 1, 1)>>, <<>>, text))

\* lines 68-71
NormalizeBullets(text) ==
    Sub(<<LineStart, Star(SpaceChars), Rep(<<{"-"} \cup BulletClass>>, 1, 1),
          Star(SpaceChars)>>, <<>>, text)

\* lines 73-77
RemoveStopwordsFromText(text) ==
    Join(SelectSeq(Split(text, <<>>),
                                 LAMBDA word : Lower(word) \notin StopWords))

\* lines 38-39: if self.lowercase: text = text.lower()
LowerIf(lowercase, text) == IF lowercase THEN Lower(text) ELSE text

\* lines 41-42: if self.remove_stopwords: text = self._remove_stopwords_from_text(text)
RemoveStopwordsIf(remove_stopwords, text) ==
    IF remove_stopwords THEN RemoveStopwordsFromText(text) ELSE text

\* clean, lines 19-44
Clean(text, lowercase, remove_stopwords) ==
    IF text = <<>> THEN <<>>
    ELSE Strip(RemoveStopwordsIf(remove_stopwords, LowerIf(lowercase,
             NormalizeBullets(RemoveSpecialChars(NormalizeWhitespace(
                 RemoveEmails(RemoveUrls(text))))))))

\* The parts resume and job texts are made of in the model: words, a stop
\* word, separators, a bullet, a URL and an e-mail address.
CleanPieces ==
    {<<"G", "o">>, <<"t", "h", "e">>, <<" ">>, <<" ", "@", " ">>, <<"-",
       " ">>, <<"\n">>, <<Bullet>>, <<NTilde>>,
     <<"h", "t", "t", "p", ":", "/", "/", "x", ".", "c", "o">>, <<"u", "@",
       "v", ".", "c", "o">>}

RECURSIVE Concat(_)
Concat(pieces) ==
    IF pieces = <<>> THEN <<>> ELSE Head(pieces) \o Concat(Tail(pieces))

\* the texts clean is called with: at most MaxPieces pieces in a row
CleanTexts ==
    UNION { { Concat(pieces) : pieces \in [1..k -> CleanPieces] } : k \in 0..MaxPieces }

\* TextCleaner.__init__, lines 7-9: the two options are fixed at construction
ClInit ==
    /\ cl_lowercase \in BOOLEAN
    /\ cl_remove_stopwords \in BOOLEAN
    /\ cl_calls = 0
    /\ cl_text = <<>>
    /\ cl_cleaned = <<>>
    /\ cl_recleaned = <<>>

\* cleaner.clean(text)
CleanText ==
    /\ cl_calls = 0
    /\ \E text \in CleanTexts :
           /\ cl_text' = text
           /\ cl_cleaned' = Clean(text, cl_lowercase, cl_remove_stopwords)
    /\ cl_calls' = 1
    /\ UNCHANGED <<cl_lowercase, cl_remove_stopwords, cl_recleaned>>

\* cleaner.clean(cleaned), cleaned being what the first call returned
CleanCleaned ==
    /\ cl_calls = 1
    /\ cl_recleaned' = Clean(cl_cleaned, cl_lowercase, cl_remove_stopwords)
    /\ cl_calls' = 2
    /\ UNCHANGED <<cl_lowercase, cl_remove_stopwords, cl_text, cl_cleaned>>

\* a cleaner with the options of the tests, not called yet
ClIdle ==
    /\ cl_lowercase = TRUE
    /\ cl_remove_stopwords = FALSE
    /\ cl_calls = 0
    /\ cl_text = <<>>
    /\ cl_cleaned = <<>>
    /\ cl_recleaned = <<>>

-----------------------------------------------------------------------------
(* Resume documents: PDFExtractor.extract, DOCXExtractor.extract            *)
(* (src/extraction), FileLoader.read_text_file (src/utils/file_loader.py)   *)
(* and EnhancedResumeAnalyzer.extract_text (src/main_enhanced.py)           *)

\* pdf_extractor.py and docx_extractor.py, lines 29 and 34: an extractor
\* returns only a text whose stripped length exceeds this
MinExtractedChars == 50

\* main_enhanced.py line 231: extract_text rejects a shorter stripped text
MinRawChars == 50

\* main_enhanced.py line 244: a shorter cleaned text is replaced by the raw one
MinCleanedChars == 30

\* what a library gives for a document it cannot read
Unreadable == <<"unreadable">>

\* A document is its suffix, whether the path exists, and what the first and
\* the second way of reading it give: pdfplumber and PyPDF2 for a PDF,
\* python-docx and docx2txt for a DOCX, the utf-8 and the latin-1 decoding for
\* a text file.
Returned(value, tried) == [raised |-> "", value |-> value, tried |-> tried]

Raised(error, tried) == [raised |-> error, value |-> <<>>, tried |-> tried]

\* _extract_with_pdfplumber, _extract_with_pypdf2 (pdf_extractor.py lines
\* 47-86) and their DOCX counterparts: "" on ImportError or any exception
LibraryText(read) == IF read = Unreadable THEN <<>> ELSE read

\* PDFExtractor.extract and DOCXExtractor.extract, lines 24-45 of both files
ExtractorExtractNoFallback(file) ==
    IF ~file.exists THEN Raised("FileNotFoundError", <<>>)
    ELSE LET text == LibraryText(file.primary)
         IN  IF text # <<>> /\ Len(Strip(text)) > MinExtractedChars
             THEN Returned(text, <<"primary">>)
             ELSE Returned(LibraryText(file.fallback), <<"primary",
                                                         "fallback">>)

ExtractorExtract(file) ==
    IF ~file.exists THEN Raised("FileNotFoundError", <<>>)
    ELSE LET text == LibraryText(file.primary)
         IN  IF text # <<>> /\ Len(Strip(text)) > MinExtractedChars
             THEN Returned(text, <<"primary">>)
             ELSE LET text2 == LibraryText(file.fallback)
                  IN  IF text2 # <<>> /\ Len(Strip(text2)) > MinExtractedChars
                      THEN Returned(text2, <<"primary", "fallback">>)
                      ELSE Raised("ValueError", <<"primary", "fallback">>)

\* FileLoader.read_text_file, file_loader.py lines 40-52
ReadTextFile(file) ==
    IF ~file.exists THEN Raised("FileNotFoundError", <<"primary">>)
    ELSE IF file.primary # Unreadable THEN Returned(file.primary, <<"primary">>)
    ELSE IF file.fallback # Unreadable
    THEN Returned(file.fallback, <<"primary", "fallback">>)
    ELSE Raised("ValueError", <<"primary", "fallback">>)

\* extract_text, lines 205-214: the extractor chosen by the suffix
ExtractRawText(file) ==
    IF file.suffix = ".pdf" THEN ExtractorExtract(file)
    ELSE IF file.suffix \in {".docx", ".doc"} THEN ExtractorExtract(file)
    ELSE IF file.suffix = ".txt" THEN ReadTextFile(file)
    ELSE Raised("ValueError", <<>>)

\* lines 244-246: the raw text is used when cleaning leaves too little
UsableText(raw_text, cleaned_text) ==
    IF cleaned_text = <<>> \/ Len(cleaned_text) < MinCleanedChars
    THEN raw_text ELSE cleaned_text

\* lines 231-263, for the stripped text of the document
TextData(raw_text, lowercase, remove_stopwords) ==
    IF raw_text = <<>> \/ Len(raw_text) < MinRawChars
    THEN [raised |-> "ValueError", text |-> <<>>, raw_text |-> <<>>]
    ELSE [raised |-> "",
          text |-> UsableText(raw_text, Clean(raw_text, lowercase, remove_stopwords)),
          raw_text |-> raw_text]

\* lines 216-263, for what the extractor returned or raised
ExtractedTextData(extracted, lowercase, remove_stopwords) ==
    IF extracted.raised # ""
    THEN [raised |-> extracted.raised, text |-> <<>>, raw_text |-> <<>>]
    ELSE TextData(Strip(extracted.value), lowercase, remove_stopwords)

\* extract_text, lines 203-270; the contact details and the sections of the
\* result are left out. Every exception is raised again (lines 265-270).
ExtractText(file, lowercase, remove_stopwords) ==
    ExtractedTextData(ExtractRawText(file), lowercase, remove_stopwords)

-----------------------------------------------------------------------------
(* SkillExtractor.extract (src/processing/skill_extractor.py) and           *)
(* JDSkillExtractor.extract (src/processing/jd_skill_extractor.py)          *)

Python == <<"P", "y", "t", "h", "o", "n">>
SQL == <<"S", "Q", "L">>
AWS == <<"A", "W", "S">>
Acme == <<"A", "c", "m", "e">>

programming_languages == <<"p", "r", "o", "g", "r", "a", "m", "m", "i", "n",
                           "g", "_", "l", "a", "n", "g", "u", "a", "g", "e", "s">>
databases == <<"d", "a", "t", "a", "b", "a", "s", "e", "s">>
cloud_platforms == <<"c", "l", "o", "u", "d", "_", "p", "l", "a", "t", "f",
                     "o", "r", "m", "s">>
skills_category == <<"s", "k", "i", "l", "l", "s">>
extracted_entities == <<"e", "x", "t", "r", "a", "c", "t", "e", "d", "_",
                        "e", "n", "t", "i", "t", "i", "e", "s">>

\* A skills dictionary is the list of its categories in insertion order, each
\* with the list of its skills. The first one has categories of
\* get_default_skills (main_enhanced.py lines 133-143), the second one a
\* single category.
SkillsDicts ==
    { << [category |-> programming_languages, skills |-> <<Python>>],
         [category |-> databases, skills |-> <<SQL>>],
         [category |-> cloud_platforms, skills |-> <<AWS>>] >>,
      << [category |-> skills_category, skills |-> <<Python, SQL, AWS>>] >> }

\* the keys of a dict, in insertion order
Keys(dict) == [i \in 1..Len(dict) |-> dict[i].category]

\* _flatten_skills, skill_extractor.py lines 21-26
FlattenSkills(skills_dict) ==
    UNION { {Lower(skill) : skill \in Range(skills_dict[i].skills)} :
                i \in 1..Len(skills_dict) }

\* _skill_exists, skill_extractor.py lines 56-68 and jd_skill_extractor.py
\* lines 63-66, called with a lowered skill and a lowered text
SkillExists(skill, text) == Search(<<WordBoundary, Lit(skill),
                                     WordBoundary>>, text)

\* skill_extractor.py lines 38-46 and jd_skill_extractor.py lines 53-61: the
\* categories that have a skill in the text, each with these skills
FoundSkills(skills_dict, text) ==
    LET text_lower == Lower(text)
        found == [i \in 1..Len(skills_dict) |->
                     [category |-> skills_dict[i].category,
                      skills |-> SelectSeq(skills_dict[i].skills,
                                     LAMBDA skill : SkillExists(Lower(skill), text_lower))]]
    IN  SelectSeq(found, LAMBDA entry : entry.skills # <<>>)

\* _extract_with_ner, skill_extractor.py lines 70-88: the entities spaCy may
\* find in the text, none or a name of the text that is longer than two
\* characters and is no skill of the dictionary
NerSkills(skills_dict, text) ==
    {<<>>} \cup { <<ent>> : ent \in { e \in {Acme} :
                      /\ Occurs(e, text)
                      /\ Len(e) > 2
                      /\ Lower(e) \notin FlattenSkills(skills_dict) } }

\* skill_extractor.py lines 48-52: the entities are appended to the category
\* extracted_entities, which is added when found_skills has none
ExtendWithEntities(found_skills, ner_skills) ==
    IF ner_skills = <<>> THEN found_skills
    ELSE IF \A i \in 1..Len(found_skills) :
                found_skills[i].category # extracted_entities
    THEN Append(found_skills, [category |-> extracted_entities, skills |-> ner_skills])
    ELSE [i \in 1..Len(found_skills) |->
             IF found_skills[i].category = extracted_entities
             THEN [category |-> extracted_entities,
                   skills |-> found_skills[i].skills \o ner_skills]
             ELSE found_skills[i]]

\* SkillExtractor.extract, skill_extractor.py lines 38-54
SkillExtractorExtract(skills_dict, text, ner_skills) ==
    ExtendWithEntities(FoundSkills(skills_dict, text), ner_skills)

\* the result of _extract_section when no keyword is found (None)
NoSection == <<"None">>

\* _extract_section for one keyword, jd_skill_extractor.py lines 73-76: the
\* text after the first place where the keyword is followed by colons or
\* whitespace, up to the next empty line or the end
KeywordSection(text_lower, keyword) ==
    LET head == <<Lit(keyword), Plus({":"} \cup SpaceChars)>>
        start == NextMatch(head, text_lower, 1)
    IN  IF start = 0 THEN NoSection
        ELSE LET m == MatchItems(head, 1, text_lower, start)
                 from == m[Len(m)]
                 ends == {i \in from..Len(text_lower) :
                              OccursAt(<<"\n", "\n">>, text_lower, i)}
                 to == IF ends = {} THEN Len(text_lower) + 1
                       ELSE CHOOSE i \in ends : \A j \in ends : i <= j
             IN  SubSeq(text_lower, from, to - 1)

\* _extract_section, jd_skill_extractor.py lines 68-78
RECURSIVE ExtractSection(_, _)
ExtractSection(text, keywords) ==
    IF keywords = <<>> THEN NoSection
    ELSE LET section == KeywordSection(Lower(text), Head(keywords))
         IN  IF section # NoSection THEN section
             ELSE ExtractSection(text, Tail(keywords))

RequiredKeywords == <<<<"r", "e", "q", "u", "i", "r", "e", "d">>, <<"m", "u",
                      "s", "t", " ", "h", "a", "v", "e">>, <<"r", "e", "q",
                                                             "u", "i", "r", "e", "m", "e", "n", "t", "s">>>>
PreferredKeywords == <<<<"p", "r", "e", "f", "e", "r", "r", "e", "d">>,
                       <<"n", "i", "c", "e", " ", "t", "o", " ", "h", "a",
                         "v", "e">>, <<"b", "o", "n", "u", "s">>>>

\* _extract_skills_from_text, jd_skill_extractor.py lines 48-61
ExtractSkillsFromText(skills_dict, text) ==
    IF text = <<>> THEN <<>> ELSE FoundSkills(skills_dict, text)

\* section or default, for a section that may be None or empty
OrElse(section, default) ==
    IF section = NoSection \/ section = <<>> THEN default ELSE section

\* sum(len(skills) for skills in required_skills.values()), line 45
RECURSIVE TotalSkills(_)
TotalSkills(found) ==
    IF found = <<>> THEN 0 ELSE Len(Head(found).skills) + TotalSkills(Tail(found))

\* the dict returned by JDSkillExtractor.extract, jd_skill_extractor.py
\* lines 40-46
JdAnalysis(required_skills, preferred_skills, experience_req) ==
    [required_skills |-> required_skills,
     preferred_skills |-> preferred_skills,
     experience_requirement |-> experience_req,
     total_required_skills |-> TotalSkills(required_skills)]

\* JDSkillExtractor.extract, jd_skill_extractor.py lines 29-46; the
\* education requirement is left out
JDSkillExtractorExtract(skills_dict, description) ==
    JdAnalysis(ExtractSkillsFromText(skills_dict,
                   OrElse(ExtractSection(description, RequiredKeywords),
                          Lower(description))),
               ExtractSkillsFromText(skills_dict,
                   OrElse(ExtractSection(description, PreferredKeywords), <<>>)),
               ExtractExperienceRequirement(Lower(description)))

\* _merge_skills, main_enhanced.py lines 510-523: set(traditional) holds the
\* keys of the dict traditional; order is the iteration order of the set
MergeSkills(traditional, hf, order) ==
    [skills |-> order,
     traditional_count |-> Len(traditional),
     hf_count |-> Len(hf.skills),
     total_count |-> Len(order)]

\* line 519: the orders list(merged_skills) can have
MergedOrders(traditional, hf) == Orders(Range(Keys(traditional)) \cup Range(hf.skills))

\* lines 375-379: HFSkillExtractor (hf_skill_extractor.py) has no method
\* extract, so the call raises AttributeError and this value is used
HfSkillsAfterFailure == [skills |-> <<>>, entities |-> <<>>]

-----------------------------------------------------------------------------
(* Embedder.encode and Embedder.calculate_similarity                        *)
(* (src/processing/embedder.py)                                             *)

\* Cosine similarities (in hundredths) the embedding model can give two
\* different texts: the cosine of two vectors lies between -1 and 1.
CosineLevels == {-10, 45}

\* encode, lines 44-57: np.array([]) for a text that is empty or blank
EncodesToNothing(text) == text = <<>> \/ Strip(text) = <<>>

\* calculate_similarity, lines 83-105, in hundredths. When the sentence
\* transformer raises, encode returns zero vectors (lines 67-70), whose cosine
\* is 0.
CalculateSimilarityResults(text1, text2, model_fails) ==
    IF text1 = <<>> \/ text2 = <<>> THEN {0}
    ELSE IF EncodesToNothing(text1) \/ EncodesToNothing(text2) THEN {0}
    ELSE IF model_fails THEN {0}
    ELSE IF Strip(text1) = Strip(text2) THEN {100}
    ELSE CosineLevels

\* lines 67-70 and 162: the similarities of zero embeddings
ZeroSimilarities(resume_clean, jd_clean) ==
    [i \in 1..Len(resume_clean) |-> [j \in 1..Len(jd_clean) |-> 0]]

\* semantic_skill_match, lines 124-214, with a sentence transformer that
\* raises (model_fails) or works
SemanticSkillMatchResults(resume_skills, jd_skills, threshold, model_fails) ==
    LET resume_clean == CleanList(resume_skills)
        jd_clean == CleanList(jd_skills)
    IN  { SemanticSkillMatchResult(resume_skills, jd_skills, threshold, sim) :
              sim \in IF model_fails THEN {ZeroSimilarities(resume_clean, jd_clean)}
                      ELSE SimilarityMatrices(resume_clean, jd_clean) }

\* the texts and the skills the embedder is called with in the model
EmbedderTexts == {<<>>, <<" ">>, <<"P", "y", "t", "h", "o", "n", " ", "d",
                    "e", "v", "e", "l", "o", "p", "e", "r">>, <<" ", "P",
                                                                "y", "t",
        "h", "o", "n", " ", "d", "e", "v", "e", "l", "o", "p", "e", "r">>,
        <<"J", "a", "v", "a", " ", "d", "e", "v", "e", "l", "o", "p", "e",
          "r">>}

EmbedderSkills == {<<>>, <<" ">>, css, sql}

EmbedderSkillLists == UNION {[1..n -> EmbedderSkills] : n \in 0..MaxSkills}

\* an embedder that has not been called
EmbIdle ==
    /\ emb_method = "init"
    /\ emb_model_fails = FALSE
    /\ emb_text1 = <<>>
    /\ emb_text2 = <<>>
    /\ emb_similarity = 0
    /\ emb_resume_skills = <<>>
    /\ emb_jd_skills = <<>>
    /\ emb_match = EmptySemantic

\* an embedder whose sentence transformer works or raises on every call
EmbStart ==
    /\ emb_method = "init"
    /\ emb_model_fails \in BOOLEAN
    /\ emb_text1 = <<>>
    /\ emb_text2 = <<>>
    /\ emb_similarity = 0
    /\ emb_resume_skills = <<>>
    /\ emb_jd_skills = <<>>
    /\ emb_match = EmptySemantic

\* Embedder.calculate_similarity(text1, text2)
CalculateSimilarity ==
    /\ emb_method = "init"
    /\ \E text1 \in EmbedderTexts, text2 \in EmbedderTexts :
           /\ emb_text1' = text1
           /\ emb_text2' = text2
           /\ emb_similarity' \in CalculateSimilarityResults(text1, text2, emb_model_fails)
    /\ emb_method' = "calculate_similarity"
    /\ UNCHANGED <<emb_model_fails, emb_resume_skills, emb_jd_skills,
                   emb_match>>

\* Embedder.semantic_skill_match(resume_skills, jd_skills, threshold)
EmbedderSemanticSkillMatch ==
    /\ emb_method = "init"
    /\ \E resume_skills \in EmbedderSkillLists, jd_skills \in EmbedderSkillLists :
           /\ emb_resume_skills' = resume_skills
           /\ emb_jd_skills' = jd_skills
           /\ emb_match' \in SemanticSkillMatchResults(resume_skills, jd_skills,
                                                      SemanticThreshold, emb_model_fails)
    /\ emb_method' = "semantic_skill_match"
    /\ UNCHANGED <<emb_model_fails, emb_text1, emb_text2, emb_similarity>>

-----------------------------------------------------------------------------
(* EnhancedResumeAnalyzer.analyze (src/main_enhanced.py), from the resume   *)
(* document and the job description to the scores                           *)

\* MatchScorer.calculate_semantic_score, match_scorer.py lines 70-76, for a
\* similarity in hundredths
CalculateSemanticScore(similarity) == Num(Max(0, IF similarity < 100 THEN similarity ELSE 100))

\* dict.get('years', None), lines 367 and 392
GetYears(dict) == IF "years" \in DOMAIN dict THEN dict.years ELSE NoneYears

\* line 444
QualificationScore == Num(70)

ResumeA == <<"5", " ", "y", "e", "a", "r", "s", " ", "e", "x", "p", "e", "r",
             "i", "e", "n", "c", "e", " ", "i", "n", " ", "P", "y", "t", "h", "o", "n", " ", "a", "n", "d", " ", "S", "Q", "L", " ", "a", "t", " ", "A", "c", "m", "e", ".", " ", "M", "a", "i", "l", ":", " ", "j", "d", "o", "e", "@", "m", "a", "i", "l", ".", "c", "o", "m">>
ResumeB == <<"P", "y", "t", "h", "o", "n", " ", "d", "e", "v", "e", "l", "o",
             "p", "e", "r", ",", " ", "3", " ", "y", "e", "a", "r", "s", " ", "o", "f", " ", "e", "x", "p", "e", "r", "i", "e", "n", "c", "e", " ", "w", "i", "t", "h", " ", "S", "Q", "L", " ", "a", "n", "d", " ", "A", "W", "S", " ", "c", "l", "o", "u", "d">>
ResumeUrl == <<"S", "e", "e", " ", "h", "t", "t", "p", "s", ":", "/", "/",
               "e", "x", "a", "m", "p", "l", "e", ".", "c", "o", "m", "/", "p", "r", "o", "f", "i", "l", "e", "s", "/", "j", "a", "n", "e", "-", "d", "o", "e", "/", "r", "e", "s", "u", "m", "e", "-", "2", "0", "2", "4", "-", "f", "i", "n", "a", "l", ".", "h", "t", "m", "l">>

JdEmpty == <<>>
JdRequirements == <<"R", "e", "q", "u", "i", "r", "e", "m", "e", "n", "t",
                    "s", ":", " ", "P", "y", "t", "h", "o", "n", ",", " ", "S", "Q", "L", ",", " ", "A", "W", "S", ".", " ", "5", "+", " ", "y", "e", "a", "r", "s", " ", "o", "f", " ", "e", "x", "p", "e", "r", "i", "e", "n", "c", "e">>
JdMustHave == <<"M", "u", "s", "t", " ", "h", "a", "v", "e", ":", " ", "S",
                "Q", "L", ".", "\n", "\n", "N", "i", "c", "e", " ", "t", "o", " ", "h", "a", "v", "e", ":", " ", "A", "W", "S", ".", " ", "M", "i", "n", "i", "m", "u", "m", " ", "3", " ", "y", "e", "a", "r", "s">>

JdTexts == {JdEmpty, JdRequirements, JdMustHave}

Document(suffix, exists, primary, fallback) ==
    [suffix |-> suffix, exists |-> exists, primary |-> primary, fallback |-> fallback]

\* the documents analysed from end to end
ResumeDocuments ==
    { Document(".txt", TRUE, text, Unreadable) : text \in {ResumeA, ResumeB, ResumeUrl} }
        \cup { Document(".pdf", TRUE, Unreadable, ResumeA),
               Document(".docx", FALSE, Unreadable, Unreadable) }

\* What a way of reading a document can give in the model: nothing, an empty
\* text, texts whose stripped length is just below, at and just above the
\* thresholds, and a resume.
Reads ==
    { Unreadable, <<>>,
      SubSeq(ResumeA, 1, MinExtractedChars - 1),
      SubSeq(ResumeA, 1, MinExtractedChars - 1) \o <<" ", " ", "\n">>,
      SubSeq(ResumeA, 1, MinExtractedChars),
      SubSeq(ResumeA, 1, MinExtractedChars + 1),
      ResumeA }

Suffixes == {".pdf", ".docx", ".doc", ".txt", ".rtf"}

\* readable, unreadable, corrupt, empty and missing documents of every type
AnyDocuments ==
    { Document(suffix, exists, primary, fallback) :
          suffix \in Suffixes, exists \in BOOLEAN, primary \in Reads, fallback \in Reads }

EmptyScores ==
    [skill_score |-> Num(0), semantic_score |-> Num(0), experience_score |-> Num(0),
     qualification_score |-> Num(0), final_score |-> Num(0)]

EmptyMerged == [skills |-> <<>>, traditional_count |-> 0, hf_count |-> 0,
                             total_count |-> 0]

EmptyJdAnalysis ==
    [required_skills |-> <<>>, preferred_skills |-> <<>>,
     experience_requirement |-> [min_years |-> 0, max_years |-> 0, required |-> FALSE],
     total_required_skills |-> 0]

\* what analyze has computed before its first step
NothingExtracted ==
    /\ pl_error = ""
    /\ resume_text = <<>>
    /\ jd_text_cleaned = <<>>
    /\ traditional_skills = <<>>
    /\ resume_experience_raw = [max_years |-> 0, total_mentions |-> 0]
    /\ resume_experience = NoneYears
    /\ all_resume_skills = EmptyMerged
    /\ jd_analysis = EmptyJdAnalysis
    /\ jd_experience = NoneYears
    /\ semantic_similarity = 0
    /\ scores = EmptyScores
    /\ experience_analysis = GapInitialAnalysis(NoneYears, NoneYears)

\* no analysis has been asked for; the analyzer has the default configuration
\* (get_default_config, lines 96-115)
PlIdle ==
    /\ pl_pc = "idle"
    /\ resume_file = Document(".txt", FALSE, Unreadable, Unreadable)
    /\ jd_text = <<>>
    /\ all_skills = <<>>
    /\ config = [lowercase |-> FALSE, remove_stopwords |-> FALSE]
    /\ NothingExtracted

\* analyze(resume_path, jd_text) has been called on an analyzer made with a
\* skills dictionary and a configuration (__init__, lines 47-75)
PlStart(documents, jd_texts, dicts, lowercases) ==
    /\ pl_pc = "start"
    /\ resume_file \in documents
    /\ jd_text \in jd_texts
    /\ all_skills \in dicts
    /\ config \in [lowercase : lowercases, remove_stopwords : {FALSE}]
    /\ NothingExtracted

\* lines 353-354: resume_data = self.extract_text(resume_path); an exception
\* leaves analyze through lines 504-508, which raise it again
AnalyzeExtractText ==
    /\ pl_pc = "start"
    /\ \E resume_data \in {ExtractText(resume_file, config.lowercase,
                                        config.remove_stopwords)} :
           IF resume_data.raised # ""
           THEN /\ pl_pc' = "raised"
                /\ pl_error' = resume_data.raised
                /\ UNCHANGED resume_text
           ELSE /\ pl_pc' = "text"
                /\ resume_text' = resume_data.text
                /\ UNCHANGED pl_error
    /\ UNCHANGED <<pl_inputs, jd_text_cleaned, traditional_skills,
                   resume_experience_raw, resume_experience, all_resume_skills,
                   jd_analysis, jd_experience, pl_scored, an_vars>>

\* lines 358-396: the job description is cleaned, the skills and the years of
\* the resume are extracted and merged, the job description is analysed. The
\* two lists handed to the matchers are all_resume_skills['skills'] and the
\* dict required_skills, which the matchers iterate: its keys.
AnalyzeExtractSkills ==
    /\ pl_pc = "text"
    /\ \E ner_skills \in NerSkills(all_skills, resume_text),
          cleaned \in {Clean(jd_text, config.lowercase, config.remove_stopwords)},
          experience_raw \in {ExtractYearsOfExperience(resume_text)},
          hf_skills \in {HfSkillsAfterFailure} :
         \E traditional \in {SkillExtractorExtract(all_skills, resume_text, ner_skills)},
            analysis \in {JDSkillExtractorExtract(all_skills, cleaned)} :
             \E order \in MergedOrders(traditional, hf_skills) :
               /\ jd_text_cleaned' = cleaned
               /\ traditional_skills' = traditional
               /\ resume_experience_raw' = experience_raw
               /\ resume_experience' = GetYears(experience_raw)
               /\ all_resume_skills' = MergeSkills(traditional, hf_skills, order)
               /\ jd_analysis' = analysis
               /\ jd_experience' = GetYears(analysis.experience_requirement)
               /\ resume_skills_in' = order
               /\ required_skills_in' = Keys(analysis.required_skills)
    /\ an_pc' = "start"
    /\ pl_pc' = "skills"
    /\ UNCHANGED <<pl_inputs, pl_error, resume_text, pl_scored,
                   skill_matching,
                   similarity_matrix, semantic_skill_match, report>>

\* lines 408-411: self.embedder.calculate_similarity(resume_text, jd_text_cleaned),
\* with a sentence transformer that works
AnalyzeCalculateSimilarity ==
    /\ pl_pc = "matched"
    /\ semantic_similarity' \in CalculateSimilarityResults(resume_text, jd_text_cleaned, FALSE)
    /\ pl_pc' = "similarity"
    /\ UNCHANGED <<pl_inputs, pl_extracted, scores, experience_analysis,
                   an_vars>>

\* lines 425-456: the sub-scores, the final score with the weights of the
\* scorer, and the experience analysis
AnalyzeScore ==
    /\ pl_pc = "semantic"
    /\ \E skill_score \in SkillMatchScores(Cardinality(skill_matching.matched_exact),
                              skill_matching.total_required,
                              Len(skill_matching.matched_fuzzy)
                                  + Len(semantic_skill_match.matched)) :
         LET semantic_score == CalculateSemanticScore(semantic_similarity)
             experience_score == ExpCalculateExperienceScore(resume_experience, jd_experience)
         IN  \E final_score \in FinalScores(AppliedWeights(sc_weights, TRUE, EmptyDict),
                                    skill_score, semantic_score, experience_score,
                                    QualificationScore) :
               scores' = [skill_score |-> skill_score,
                          semantic_score |-> semantic_score,
                          experience_score |-> experience_score,
                          qualification_score |-> QualificationScore,
                          final_score |-> final_score]
    /\ experience_analysis' = ExpAnalyzeExperienceGap(resume_experience, jd_experience)
    /\ pl_pc' = "scored"
    /\ UNCHANGED <<pl_inputs, pl_extracted, semantic_similarity, an_vars>>

-----------------------------------------------------------------------------
(* MatchScorer.calculate_experience_score (src/scoring/match_scorer.py) *)

\* lines 112-123: candidate_years below required_years, before rounding
MatchScorerShortfallScore(ratio) ==
    IF RatLeq(Frac(8, 10), ratio) THEN
        RatAdd(Num(85), RatMul(RatSub(ratio, Frac(8, 10)), Num(75)))
    ELSE IF RatLeq(Frac(6, 10), ratio) THEN
        RatAdd(Num(70), RatMul(RatSub(ratio, Frac(6, 10)), Num(75)))
    ELSE IF RatLeq(Frac(4, 10), ratio) THEN
        RatAdd(Num(50), RatMul(RatSub(ratio, Frac(4, 10)), Num(100)))
    ELSE RatMul(ratio, Num(125))

\* lines 104-111: ratio >= 1.0
MatchScorerSurplusScore(ratio) ==
    IF RatLeq(ratio, Frac(3, 2)) THEN Num(100)
    ELSE IF RatLeq(ratio, Num(2)) THEN Num(95)
    ELSE Num(90)

\* calculate_experience_score, lines 78-125: the values it can return
MatchScorerExperienceScores(candidate_years, required_years) ==
    IF candidate_years = NoneYears \/ required_years = NoneYears THEN {Num(50)}
    ELSE IF required_years = 0 THEN {Num(100)}
    ELSE IF RatLeq(Num(1), Frac(candidate_years, required_years))
         THEN RoundTenths(MatchScorerSurplusScore(Frac(candidate_years, required_years)))
         ELSE RoundTenths(MatchScorerShortfallScore(Frac(candidate_years, required_years)))

MxInit ==
    /\ mx_called = FALSE
    /\ mx_candidate = NoneYears
    /\ mx_required = NoneYears
    /\ mx_score = Num(0)

\* one call of scorer.calculate_experience_score(candidate_years, required_years)
MatchScorerCalculateExperienceScore ==
    \E c \in OptYears, r \in OptYears :
        /\ mx_called' = TRUE
        /\ mx_candidate' = c
        /\ mx_required' = r
        /\ mx_score' \in MatchScorerExperienceScores(c, r)
        /\ UNCHANGED <<ms_vars, rp_vars>>

-----------------------------------------------------------------------------
(* Calls of SimilarityMatcher.match_skills (src/processing/similarity_matcher.py) *)

PostgreSQL == <<"P", "o", "s", "t", "g", "r", "e", "S", "Q", "L">>
Postgre_SQL == <<"P", "o", "s", "t", "g", "r", "e", " ", "S", "Q", "L">>
scss == <<"s", "c", "s", "s">>
go == <<"g", "o">>

\* The skill names given to match_skills: a name written in two ways, a name
\* in two cases (css, CSS_), two names as close to css as each other (css3,
\* scss) and a name that shares no character with css.
MatcherPool == {PostgreSQL, Postgre_SQL, css, CSS_, css3, scss, go}

\* all lists of at most n elements of S, repeated elements included
Lists(S, n) == UNION {[1..k -> S] : k \in 0..n}

\* The threshold argument (lines 32, 37-38): the ends of its range, the
\* default, and the values at, below and above the scores 86 and 95 that the
\* names of MatcherPool have with each other.
Thresholds == {0, 1, 50, 85, 86, 87, 95, 96, 100}

MsIdle ==
    /\ ms_called = FALSE
    /\ ms_resume_skills = <<>>
    /\ ms_required_skills = <<>>
    /\ ms_threshold = FuzzyThreshold
    /\ ms_req_order = <<>>
    /\ ms_res_order = <<>>
    /\ ms_result = EmptyMatching

\* one call of matcher.match_skills(resume_skills, required_skills, threshold);
\* the two orders are those in which Python iterates the sets of lines 52-53
MatchSkillsCall ==
    \E resume_skills, required_skills \in Lists(MatcherPool, MaxSkills), threshold \in Thresholds :
        \E req_order \in Orders(Range(NormalizeList(required_skills))
                                    \ Range(NormalizeList(resume_skills))),
           res_order \in Orders(Range(NormalizeList(resume_skills))
                                    \ Range(NormalizeList(required_skills))) :
            /\ ms_called' = TRUE
            /\ ms_resume_skills' = resume_skills
            /\ ms_required_skills' = required_skills
            /\ ms_threshold' = threshold
            /\ ms_req_order' = req_order
            /\ ms_res_order' = res_order
            /\ ms_result' = MatchSkillsResult(resume_skills, required_skills, threshold,
                                              req_order, res_order)
            /\ UNCHANGED <<mx_vars, rp_vars>>

-----------------------------------------------------------------------------
(* SummaryGenerator.generate_report (src/scoring/summary_generator.py) *)
(* A text built from values (an f-string) is kept as a record of its parts:  *)
(* the fixed words, the skill names joined into it and the numbers put in it *)

MaxTime == 1

\* MatchScorer.get_rating, match_scorer.py lines 207-228
GetRating(score) ==
    IF RatLeq(Num(90), score) THEN "Excellent Match"
    ELSE IF RatLeq(Num(80), score) THEN "Very Good Match"
    ELSE IF RatLeq(Num(70), score) THEN "Good Match"
    ELSE IF RatLeq(Num(60), score) THEN "Fair Match"
    ELSE IF RatLeq(Num(50), score) THEN "Moderate Match"
    ELSE "Weak Match"

\* _calculate_rating, lines 130-143
CalculateRating(score) ==
    IF RatLeq(Num(90), score) THEN "Excellent Match"
    ELSE IF RatLeq(Num(80), score) THEN "Very Good Match"
    ELSE IF RatLeq(Num(70), score) THEN "Good Match"
    ELSE IF RatLeq(Num(60), score) THEN "Fair Match"
    ELSE IF RatLeq(Num(50), score) THEN "Moderate Match"
    ELSE "Weak Match"

\* _interpret_semantic_score, lines 151-162
InterpretSemanticScore(score) ==
    IF RatLeq(Frac(8, 10), score) THEN "Very high semantic alignment with job requirements"
    ELSE IF RatLeq(Frac(7, 10), score) THEN "High semantic alignment with job requirements"
    ELSE IF RatLeq(Frac(6, 10), score) THEN "Moderate semantic alignment with job requirements"
    ELSE IF RatLeq(Frac(5, 10), score) THEN "Fair semantic alignment with job requirements"
    ELSE "Low semantic alignment with job requirements"

\* round(q, 3) for q >= 0: the nearest multiple of 0.001, both neighbours at an
\* exact tie
RoundThousandths(q) ==
    LET f == (1000 * q.n) \div q.d
        twice == 2 * (1000 * q.n - f * q.d)
    IN  IF twice < q.d THEN {Frac(f, 1000)}
        ELSE IF twice > q.d THEN {Frac(f + 1, 1000)}
        ELSE {Frac(f, 1000), Frac(f + 1, 1000)}

\* list[:n]
Take(list, n) == SubSeq(list, 1, IF Len(list) < n THEN Len(list) ELSE n)

\* one text of the report: its words, the skills joined into it with ', ' and
\* the numbers formatted into it
Sentence(text, skills, counts) == [text |-> text, skills |-> skills, counts |-> counts]

Plain(text) == Sentence(text, <<>>, <<>>)

\* lines 182-191
MissingSkillsRecommendation(critical_missing) ==
    IF Len(critical_missing) <= 3
    THEN Sentence("Priority skills to acquire: ", critical_missing, <<>>)
    ELSE Sentence("Focus on top missing skills: ", Take(critical_missing, 3), <<>>)

\* lines 204-219
ScoreRecommendation(final_score) ==
    IF RatLeq(Num(80), final_score)
    THEN "Excellent match! Tailor your resume to emphasize relevant experience and projects"
    ELSE IF RatLeq(Num(70), final_score)
    THEN "Good match overall. Consider adding specific examples of projects using required skills"
    ELSE IF RatLeq(Num(60), final_score)
    THEN "Strengthen your profile by gaining hands-on experience with missing skills"
    ELSE "Significant skill gaps identified. Consider targeted learning or look for roles that better match your current skill set"

\* line 194: the statuses whose recommendation is passed on
GapStatusesPassedOn == {"moderate_gap", "significant_gap", "critical_gap"}

\* _generate_recommendations, lines 164-221
GenerateRecommendations(final_score, missing_skills, analysis, matched_exact, matched_fuzzy) ==
    (IF RatLt(final_score, Num(70))
     THEN <<Plain("Consider acquiring key missing skills through courses or projects")>>
     ELSE <<>>)
    \o (IF missing_skills # <<>>
        THEN <<MissingSkillsRecommendation(Take(missing_skills, 5))>>
        ELSE <<>>)
    \o (IF analysis.status \in GapStatusesPassedOn
        THEN <<Plain(analysis.recommendation)>>
        ELSE <<>>)
    \o (IF matched_exact # <<>> \/ matched_fuzzy # <<>>
        THEN <<Plain("Highlight your relevant skills and projects more prominently in your resume")>>
        ELSE <<>>)
    \o <<Plain(ScoreRecommendation(final_score))>>

\* lines 252-257: [s for s in extra_skills if len(s) > 3][:5], and the text
\* made of its first three when it is not empty
ExtraSkillsStrength(notable_extra) ==
    IF notable_extra # <<>>
    THEN <<Sentence("Additional relevant skills: ", Take(notable_extra, 3), <<>>)>>
    ELSE <<>>

\* _identify_strengths, lines 223-266
IdentifyStrengths(skill_score, semantic_score, experience_score, matched_exact, matched_fuzzy, extra_skills) ==
    (IF RatLeq(Num(80), skill_score)
     THEN <<Sentence("Strong skill match with {} exact and {} similar skill matches",
                     <<>>, <<Len(matched_exact), Len(matched_fuzzy)>>)>>
     ELSE <<>>)
    \o (IF RatLeq(Num(80), semantic_score)
        THEN <<Plain("High semantic alignment with job requirements")>>
        ELSE <<>>)
    \o (IF RatLeq(Num(90), experience_score)
        THEN <<Plain("Experience level matches or exceeds requirements")>>
        ELSE <<>>)
    \o ExtraSkillsStrength(Take(SelectSeq(extra_skills, LAMBDA skill : Len(skill) > 3), 5))
    \o (IF matched_exact # <<>>
        THEN <<Sentence("Proficient in key required skills: ",
                        Take(Take(matched_exact, 5), 3), <<>>)>>
        ELSE <<>>)

\* lines 299-314
SummaryRecommendation(final_score) ==
    IF RatLeq(Num(80), final_score)
    THEN "Recommendation: Strong candidate. Proceed with application."
    ELSE IF RatLeq(Num(70), final_score)
    THEN "Recommendation: Good candidate. Consider applying with tailored resume."
    ELSE IF RatLeq(Num(60), final_score)
    THEN "Recommendation: Fair match. Consider skill development before applying."
    ELSE "Recommendation: Address significant skill gaps or consider alternative positions."

\* _generate_summary, lines 268-316: the parts joined with ' | '. formatted is
\* final_score written with one decimal; the message of the experience
\* analysis is a text fixed by its status and its years.
GenerateSummary(final_score, formatted, rating, matched_exact, matched_fuzzy, missing_skills, analysis) ==
    [assessment |-> <<rating, formatted>>,
     skills |-> <<Len(matched_exact) + Len(matched_fuzzy), Len(matched_exact),
                  Len(matched_fuzzy), Len(missing_skills)>>,
     experience |-> <<analysis.status, analysis.candidate_experience,
                      analysis.required_experience, analysis.gap>>,
     recommendation |-> SummaryRecommendation(final_score)]

\* lines 104-105: the number of matched skills and of required skills
TotalMatched(a) ==
    Len(a.matched_skills_exact) + Len(a.matched_skills_fuzzy) + Len(a.matched_skills_semantic)

\* lines 80-126: the report dict, given the rounded numbers
BuildReport(a, generated_at, rounded, match_rate, similarity) ==
    [metadata |-> [generated_at |-> generated_at,
                   job_title |-> IF a.job_title # "" THEN a.job_title ELSE "Not specified",
                   analyzer_version |-> "2.0.0"],
     contact_info |-> a.contact_info,
     overall_score |-> [final_score |-> rounded.final_score,
                        rating |-> CalculateRating(a.final_score),
                        breakdown |-> [skill_score |-> rounded.skill_score,
                                       semantic_score |-> rounded.semantic_score,
                                       experience_score |-> rounded.experience_score,
                                       qualification_score |-> rounded.qualification_score]],
     skills_analysis |-> [matched_exact |-> a.matched_skills_exact,
                          matched_fuzzy |-> a.matched_skills_fuzzy,
                          matched_semantic |-> a.matched_skills_semantic,
                          missing |-> a.missing_skills,
                          extra |-> a.extra_skills,
                          total_matched |-> TotalMatched(a),
                          total_required |-> TotalMatched(a) + Len(a.missing_skills),
                          match_rate |-> match_rate],
     semantic_analysis |-> [overall_similarity |-> similarity,
                            interpretation |-> InterpretSemanticScore(a.semantic_similarity)],
     experience_analysis |-> a.experience_analysis,
     strengths |-> IdentifyStrengths(a.skill_score, a.semantic_score, a.experience_score,
                                     a.matched_skills_exact, a.matched_skills_fuzzy,
                                     a.extra_skills),
     recommendations |-> GenerateRecommendations(a.final_score, a.missing_skills,
                                                 a.experience_analysis,
                                                 a.matched_skills_exact,
                                                 a.matched_skills_fuzzy),
     summary |-> GenerateSummary(a.final_score, rounded.final_score,
                                 CalculateRating(a.final_score), a.matched_skills_exact,
                                 a.matched_skills_fuzzy, a.missing_skills,
                                 a.experience_analysis)]

\* the five numbers of overall_score after round(x, 1), lines 89-95
RoundedScores(a) ==
    { [final_score |-> f, skill_score |-> k, semantic_score |-> s, experience_score |-> e,
       qualification_score |-> q] :
          f \in RoundTenths(a.final_score), k \in RoundTenths(a.skill_score),
          s \in RoundTenths(a.semantic_score), e \in RoundTenths(a.experience_score),
          q \in RoundTenths(a.qualification_score) }

\* generate_report, lines 15-128, called with the arguments a when
\* datetime.now() returns generated_at: the reports it can return
GenerateReports(a, generated_at) ==
    { BuildReport(a, generated_at, rounded, match_rate, similarity) :
          rounded \in RoundedScores(a),
          match_rate \in MatchRates(TotalMatched(a), TotalMatched(a) + Len(a.missing_skills)),
          similarity \in RoundThousandths(a.semantic_similarity) }

\* The final scores given to generate_report: the two sides of each threshold
\* of the rating, and one score that round(x, 1) moves across a threshold.
ReportScores ==
    {Num(0), Frac(499, 10), Num(50), Frac(599, 10), Num(60), Frac(699, 10), Num(70),
     Frac(799, 10), Num(80), Frac(8996, 100), Num(90), Num(100)}

\* The candidate and required years behind the experience arguments: the pairs
\* whose score is no exact tie of round(x, 1), where the binary value of the
\* float decides the digit shown.
ReportYears ==
    {years \in OptYears \X OptYears :
         Cardinality(RoundTenths(ExpCalculateExperienceScore(years[1], years[2]))) = 1}

\* The arguments given to generate_report. The experience analysis and the
\* experience score are those ExperienceScorer gives for a pair of years.
ReportArguments ==
    { [final_score |-> final_score,
       skill_score |-> skill_score,
       semantic_score |-> Num(72),
       experience_score |-> ExpCalculateExperienceScore(years[1], years[2]),
       qualification_score |-> QualificationScore,
       matched_skills_exact |-> matched,
       matched_skills_fuzzy |-> <<>>,
       matched_skills_semantic |-> <<>>,
       missing_skills |-> missing,
       extra_skills |-> <<scss>>,
       semantic_similarity |-> Frac(72, 100),
       experience_analysis |-> ExpAnalyzeExperienceGap(years[1], years[2]),
       job_title |-> job_title,
       contact_info |-> <<>>] :
          final_score \in ReportScores, skill_score \in {Num(40), Num(85)},
          years \in ReportYears, matched \in {<<>>, <<css>>},
          missing \in {<<>>, <<css3>>}, job_title \in {"", "Data Engineer"} }

RpIdle ==
    /\ now = 0
    /\ rp_calls = <<>>

\* time passes
Tick ==
    /\ now < MaxTime
    /\ now' = now + 1
    /\ UNCHANGED <<rp_calls, mx_vars, ms_vars>>

\* the first call of summary_gen.generate_report(...)
GenerateReportCall ==
    /\ rp_calls = <<>>
    /\ \E a \in ReportArguments : \E r \in GenerateReports(a, now) :
           rp_calls' = <<[args |-> a, time |-> now, report |-> r]>>
    /\ UNCHANGED <<now, mx_vars, ms_vars>>

\* a second call with the arguments of the first
GenerateReportAgain ==
    /\ Len(rp_calls) = 1
    /\ \E r \in GenerateReports(rp_calls[1].args, now) :
           rp_calls' = Append(rp_calls, [args |-> rp_calls[1].args, time |-> now,
                                         report |-> r])
    /\ UNCHANGED <<now, mx_vars, ms_vars>>

\* no scorer, matcher or report generator has been called outside analyze
CallIdle == MxInit /\ MsIdle /\ RpIdle

\* no component outside the scorers and the skill matching has been called
ExtInit == ClIdle /\ YrIdle /\ PlIdle /\ EmbIdle

-----------------------------------------------------------------------------
(* Specification of the experience scorer *)

InitExp == ExpInit /\ GapInit /\ ScInit /\ AnIdle /\ ExtInit /\ CallIdle

NextExp == CalculateExperienceScore

SpecExp == InitExp /\ [][NextExp]_vars

-----------------------------------------------------------------------------
(* Specification of the experience gap analysis *)

InitGap == GapInit /\ ExpInit /\ ScInit /\ AnIdle /\ ExtInit /\ CallIdle

NextGap == AnalyzeExperienceGap

SpecGap == InitGap /\ [][NextGap]_vars

-----------------------------------------------------------------------------
(* Specification of the match scorer *)

InitScorer == ScInit /\ ExpInit /\ GapInit /\ AnIdle /\ ExtInit /\ CallIdle

NextScorer ==
    \/ SetWeights /\ UNCHANGED <<exp_vars, an_vars, gap_vars, ext_vars, call_vars>>
    \/ CalculateFinalScore /\ UNCHANGED <<exp_vars, an_vars, gap_vars, ext_vars, call_vars>>

SpecScorer == InitScorer /\ [][NextScorer]_vars

-----------------------------------------------------------------------------
(* Specification of the skill match score *)

InitSkillScore == ScInit /\ ExpInit /\ GapInit /\ AnIdle /\ ExtInit /\ CallIdle

NextSkillScore == CalculateSkillMatchScore /\ UNCHANGED <<exp_vars, an_vars, gap_vars, ext_vars, call_vars>>

SpecSkillScore == InitSkillScore /\ [][NextSkillScore]_vars

-----------------------------------------------------------------------------
(* Specification of the skill matching of analyze *)

InitAnalyze == AnStart /\ ScInit /\ ExpInit /\ GapInit /\ ExtInit /\ CallIdle

NextAnalyze ==
    \/ MatchSkills /\ UNCHANGED <<exp_vars, sc_vars, gap_vars, ext_vars, call_vars>>
    \/ SemanticSkillMatch /\ UNCHANGED <<exp_vars, sc_vars, gap_vars, ext_vars, call_vars>>
    \/ GenerateReport /\ UNCHANGED <<exp_vars, sc_vars, gap_vars, ext_vars, call_vars>>

SpecAnalyze == InitAnalyze /\ [][NextAnalyze]_vars

-----------------------------------------------------------------------------
(* Specification of the text cleaner *)

core_vars == <<exp_vars, sc_vars, an_vars, gap_vars>>

CoreInit == ExpInit /\ GapInit /\ ScInit /\ AnIdle

InitClean == ClInit /\ CoreInit /\ YrIdle /\ PlIdle /\ EmbIdle /\ CallIdle

NextClean ==
    \/ CleanText /\ UNCHANGED <<core_vars, yr_vars, pl_vars, emb_vars, call_vars>>
    \/ CleanCleaned /\ UNCHANGED <<core_vars, yr_vars, pl_vars, emb_vars, call_vars>>

SpecClean == InitClean /\ [][NextClean]_vars

-----------------------------------------------------------------------------
(* Specification of the extraction of years of experience *)

InitYears == YrStart /\ CoreInit /\ ClIdle /\ PlIdle /\ EmbIdle /\ CallIdle

NextYears ==
    \/ ExtractYears /\ UNCHANGED <<core_vars, cl_vars, pl_vars, emb_vars, call_vars>>
    \/ ExtractRequirement /\ UNCHANGED <<core_vars, cl_vars, pl_vars, emb_vars, call_vars>>

SpecYears == InitYears /\ [][NextYears]_vars

-----------------------------------------------------------------------------
(* Specification of analyze, from the resume document to the report *)

\* the variables analyze does not touch
beside_analyze == <<exp_vars, sc_vars, gap_vars, cl_vars, yr_vars, emb_vars, call_vars>>

BesideAnalyzeInit ==
    ExpInit /\ GapInit /\ ScInit /\ ClIdle /\ YrIdle /\ EmbIdle /\ CallIdle

InitPipeline ==
    PlStart(ResumeDocuments, JdTexts, SkillsDicts, BOOLEAN) /\ AnIdle /\ BesideAnalyzeInit

NextPipeline ==
    \/ AnalyzeExtractText /\ UNCHANGED beside_analyze
    \/ AnalyzeExtractSkills /\ UNCHANGED beside_analyze
    \/ /\ pl_pc = "skills"
       /\ MatchSkills
       /\ pl_pc' = "matched"
       /\ UNCHANGED <<pl_inputs, pl_extracted, pl_scored, beside_analyze>>
    \/ AnalyzeCalculateSimilarity /\ UNCHANGED beside_analyze
    \/ /\ pl_pc = "similarity"
       /\ SemanticSkillMatch
       /\ pl_pc' = "semantic"
       /\ UNCHANGED <<pl_inputs, pl_extracted, pl_scored, beside_analyze>>
    \/ AnalyzeScore /\ UNCHANGED beside_analyze
    \/ /\ pl_pc = "scored"
       /\ GenerateReport
       /\ pl_pc' = "done"
       /\ UNCHANGED <<pl_inputs, pl_extracted, pl_scored, beside_analyze>>

SpecPipeline == InitPipeline /\ [][NextPipeline]_vars

-----------------------------------------------------------------------------
(* Specification of analyze on readable and unreadable documents *)

\* the analyzer has the default configuration and the default categories
DefaultCategories == {dict \in SkillsDicts : Len(dict) > 1}

InitDocuments ==
    PlStart(AnyDocuments, {JdEmpty}, DefaultCategories, {FALSE}) /\ AnIdle /\ BesideAnalyzeInit

SpecDocuments == InitDocuments /\ [][NextPipeline]_vars

-----------------------------------------------------------------------------
(* Specification of the embedder *)

InitEmbedder == EmbStart /\ CoreInit /\ ClIdle /\ YrIdle /\ PlIdle /\ CallIdle

NextEmbedder ==
    \/ CalculateSimilarity /\ UNCHANGED <<core_vars, cl_vars, yr_vars, pl_vars, call_vars>>
    \/ EmbedderSemanticSkillMatch /\ UNCHANGED <<core_vars, cl_vars, yr_vars, pl_vars, call_vars>>

SpecEmbedder == InitEmbedder /\ [][NextEmbedder]_vars

-----------------------------------------------------------------------------
(* Specification of the two experience scores *)

\* the variables of analyze and of the components it calls
an_ext_vars == <<sc_vars, an_vars, gap_vars, ext_vars>>

InitScores == ExpInit /\ GapInit /\ ScInit /\ AnIdle /\ ExtInit /\ CallIdle

\* each of the two scorers is called once
NextScores ==
    \/ ~exp_called /\ CalculateExperienceScore
    \/ ~mx_called /\ MatchScorerCalculateExperienceScore
           /\ UNCHANGED <<exp_vars, an_ext_vars>>

SpecScores == InitScores /\ [][NextScores]_vars

-----------------------------------------------------------------------------
(* Specification of the calls of match_skills *)

InitMatcher == ExpInit /\ GapInit /\ ScInit /\ AnIdle /\ ExtInit /\ CallIdle

\* match_skills is called once
NextMatcher == ~ms_called /\ MatchSkillsCall /\ UNCHANGED <<exp_vars, an_ext_vars>>

SpecMatcher == InitMatcher /\ [][NextMatcher]_vars

-----------------------------------------------------------------------------
(* Specification of the report generator *)

InitReport == ExpInit /\ GapInit /\ ScInit /\ AnIdle /\ ExtInit /\ CallIdle

NextReport ==
    \/ Tick /\ UNCHANGED <<exp_vars, an_ext_vars>>
    \/ GenerateReportCall /\ UNCHANGED <<exp_vars, an_ext_vars>>
    \/ GenerateReportAgain /\ UNCHANGED <<exp_vars, an_ext_vars>>

SpecReport == InitReport /\ [][NextReport]_vars

-----------------------------------------------------------------------------
(* Claims about the match result reported by analyze *)

Disjoint(A, B) == A \cap B = {}

\* how many elements of the sequence q satisfy Test
CountIn(q, Test(_)) == Cardinality({i \in DOMAIN q : Test(q[i])})

\* C1: in the report, matched_exact, matched_fuzzy, matched_semantic and
\* missing are pairwise disjoint and their union is the normalized (trimmed,
\* lowercased, deduplicated) required skill set.
C1_RequiredPartition ==
    an_pc = "done" =>
        LET required == Range(NormalizeList(required_skills_in))
            exact == report.matched_exact
            fuzzy == Range(report.matched_fuzzy)
            semantic == Range(report.matched_semantic)
            missing == report.missing
        IN  /\ Disjoint(exact, fuzzy) /\ Disjoint(exact, semantic)
            /\ Disjoint(exact, missing) /\ Disjoint(fuzzy, semantic)
            /\ Disjoint(fuzzy, missing) /\ Disjoint(semantic, missing)
            /\ exact \cup fuzzy \cup semantic \cup missing = required

\* C2: every normalized candidate skill is either consumed by exactly one
\* match (the exact match, the resume side of one fuzzy pair or the resume side
\* of one semantic pair) or is in extra, never both and never neither.
C2_CandidateConsumedOrExtra ==
    an_pc = "done" =>
        /\ report.extra \subseteq Range(NormalizeList(resume_skills_in))
        /\ \A c \in Range(NormalizeList(resume_skills_in)) :
               LET IsFuzzy(pair) == pair.resume = c
                   IsSemantic(pair) == Strip(Lower(pair.resume_skill)) = c
                   consumed ==
                       (IF c \in report.matched_exact THEN 1 ELSE 0)
                       + CountIn(skill_matching.fuzzy_pairs, IsFuzzy)
                       + CountIn(semantic_skill_match.semantic_pairs, IsSemantic)
               IN  \/ consumed = 1 /\ c \notin report.extra
                   \/ consumed = 0 /\ c \in report.extra

-----------------------------------------------------------------------------
(* Claims about MatchScorer *)

\* x is a multiple of 0.1 at distance at most 0.05 from exact
IsRoundedToTenth(x, exact) ==
    /\ x.d \in {1, 2, 5, 10}
    /\ RatLeq(RatAbs(RatSub(x, exact)), Frac(1, 20))

InRange0To100(x) == RatLeq(Num(0), x) /\ RatLeq(x, Num(100))

Clamp0To100(x) ==
    IF RatLt(x, Num(0)) THEN Num(0) ELSE IF RatLt(Num(100), x) THEN Num(100) ELSE x

FinalScoreCall == sc_method = "calculate_final_score"

\* C3: with the default weights, calculate_final_score returns
\* 0.4*skill + 0.3*semantic + 0.2*experience + 0.1*qualification, clamped to
\* [0,100] and rounded to one decimal place.
C3_DefaultWeightedSum ==
    (FinalScoreCall /\ sc_weights = DefaultWeights /\ sc_warg_none) =>
        LET sum == RatAdd(RatAdd(RatMul(Frac(4, 10), sc_args[1]),
                                 RatMul(Frac(3, 10), sc_args[2])),
                          RatAdd(RatMul(Frac(2, 10), sc_args[3]),
                                 RatMul(Frac(1, 10), sc_args[4])))
        IN  /\ IsRoundedToTenth(sc_result, Clamp0To100(sum))
            /\ InRange0To100(sc_result)

C3_Witness ==
    /\ FinalScoreCall
    /\ sc_weights = DefaultWeights
    /\ sc_warg_none
    /\ sc_args = <<Frac(662, 10), Num(100), Num(0), Num(100)>>
    /\ sc_result = Frac(665, 10)

\* the second argument tuple raises exactly one sub-score of the first
OneSubScoreRaised(a, b) ==
    \E i \in 1..4 :
        /\ RatLt(a[i], b[i])
        /\ \A j \in (1..4) \ {i} : a[j] = b[j]

\* C4: under every weight set the scorer uses, calculate_final_score is
\* non-decreasing in each sub-score with the other three held fixed, and its
\* result is within [0,100]: of two successive calls applying the same weights,
\* the second with one sub-score raised, the second result is not lower.
C4_MonotoneInEachSubScore ==
    [][ (FinalScoreCall /\ sc_method' = "calculate_final_score"
            /\ sc_applied' = sc_applied /\ OneSubScoreRaised(sc_args, sc_args'))
        => (RatLeq(sc_result, sc_result') /\ InRange0To100(sc_result')) ]_vars

C6_AppliedWeightsValid ==
    FinalScoreCall =>
        /\ \A k \in DOMAIN sc_applied : RatLeq(Num(0), sc_applied[k])
        /\ RatAdd(RatAdd(sc_applied.skills, sc_applied.semantic),
                  RatAdd(sc_applied.experience, sc_applied.qualifications)) = Num(1)

SkillScoreCall == sc_method = "calculate_skill_match_score"

\* C7: calculate_skill_match_score(exact, required, fuzzy) returns 100 when
\* required = 0, 100 for (n, n, 0) with n > 0, and otherwise
\* min(1, (exact + 0.8*fuzzy)/required)*100 rounded to one decimal; the result
\* is within [0,100].
C7_SkillMatchScore ==
    SkillScoreCall =>
        LET exact == sc_args[1]
            required == sc_args[2]
            fuzzy == sc_args[3]
        IN  /\ required = 0 => sc_result = Num(100)
            /\ (required > 0 /\ exact = required /\ fuzzy = 0) => sc_result = Num(100)
            /\ required > 0 =>
                   LET rate == Frac(10 * exact + 8 * fuzzy, 10 * required)
                       capped == IF RatLt(Num(1), rate) THEN Num(1) ELSE rate
                   IN  IsRoundedToTenth(sc_result, RatMul(capped, Num(100)))
            /\ InRange0To100(sc_result)

C7_Witness ==
    /\ SkillScoreCall
    /\ sc_args = <<1, 3, 1>>
    /\ sc_result = Num(60)
    /\ ~sc_error

-----------------------------------------------------------------------------
(* Claims about ExperienceScorer.calculate_experience_score *)

ExpRatio == Frac(exp_candidate, exp_required)

ExpShortfallCall ==
    /\ exp_called
    /\ exp_candidate # NoneYears
    /\ exp_required # NoneYears
    /\ exp_required > 0
    /\ exp_candidate < exp_required

InBand(lo, hi) == RatLeq(Num(lo), exp_score) /\ RatLeq(exp_score, Num(hi))

\* C8: the score is exactly 70 whenever required_years is unknown or 0,
\* whatever the candidate years, and exactly 50 when required_years > 0 and
\* candidate_years is unknown.
C8_NeutralScores ==
    exp_called =>
        /\ (exp_required = NoneYears \/ exp_required = 0) => exp_score = Num(70)
        /\ (exp_required # NoneYears /\ exp_required > 0 /\ exp_candidate = NoneYears)
               => exp_score = Num(50)

C8_Witness ==
    /\ exp_called
    /\ exp_required = NoneYears
    /\ exp_candidate = NoneYears
    /\ exp_score = Num(70)

\* C9 as stated: a known candidate against required_years = 0 scores 100.
C9_ZeroRequirementScores100 ==
    (exp_called /\ exp_candidate # NoneYears /\ exp_required = 0)
        => exp_score = Num(100)

\* C9 as amended: a known candidate against required_years = 0 scores the
\* neutral 70, while a known candidate whose years equal a positive
\* requirement scores 100.
C9_ZeroRequirementScores70 ==
    /\ (exp_called /\ exp_candidate # NoneYears /\ exp_required = 0)
           => exp_score = Num(70)
    /\ (exp_called /\ exp_candidate # NoneYears /\ exp_required > 0
            /\ exp_candidate = exp_required)
           => exp_score = Num(100)

C9_Witness ==
    /\ exp_called
    /\ exp_candidate = 5
    /\ exp_required = 0
    /\ exp_score = Num(70)

\* C10 as stated: for known c < r, r > 0, the score lies in [80,90] for ratio
\* in [0.8,1.0), [70,85] for [0.6,0.8), [50,70] for [0.4,0.6) and [0,50]
\* for [0,0.4).
C10_ShortfallBandsOfSpec ==
    ExpShortfallCall =>
        IF RatLeq(Frac(8, 10), ExpRatio) THEN InBand(80, 90)
        ELSE IF RatLeq(Frac(6, 10), ExpRatio) THEN InBand(70, 85)
        ELSE IF RatLeq(Frac(4, 10), ExpRatio) THEN InBand(50, 70)
        ELSE InBand(0, 50)

\* C10 as amended: for known c < r, r > 0, the score lies in [80,90] for ratio
\* in [0.8,1.0), [60,80] for [0.6,0.8), [40,60] for [0.4,0.6) and [0,50]
\* for [0,0.4).
C10_ShortfallBandsOfCode ==
    ExpShortfallCall =>
        IF RatLeq(Frac(8, 10), ExpRatio) THEN InBand(80, 90)
        ELSE IF RatLeq(Frac(6, 10), ExpRatio) THEN InBand(60, 80)
        ELSE IF RatLeq(Frac(4, 10), ExpRatio) THEN InBand(40, 60)
        ELSE InBand(0, 50)

C10_Witness ==
    /\ ExpShortfallCall
    /\ exp_candidate = 3
    /\ exp_required = 5
    /\ exp_score = Num(60)

ExpSurplusCall ==
    /\ exp_called
    /\ exp_candidate # NoneYears
    /\ exp_required # NoneYears
    /\ exp_required > 0
    /\ exp_candidate >= exp_required

\* C11: for known candidate years c and required years r > 0 with c >= r,
\* calculate_experience_score returns 100 when c <= 1.5*r, 95 when
\* 1.5*r < c <= 2*r, and a value in [85,90] when c > 2*r.
C11_SurplusBands ==
    ExpSurplusCall =>
        IF 2 * exp_candidate <= 3 * exp_required THEN exp_score = Num(100)
        ELSE IF exp_candidate <= 2 * exp_required THEN exp_score = Num(95)
        ELSE InBand(85, 90)

C11_Witness ==
    /\ ExpSurplusCall
    /\ exp_candidate = 3
    /\ exp_required = 2
    /\ exp_score = Num(100)

-----------------------------------------------------------------------------
(* Claims about ExperienceScorer.analyze_experience_gap *)

GapStatuses ==
    {"no_requirement", "not_found", "meets_requirement", "exceeds_requirement",
     "highly_experienced", "close_match", "moderate_gap", "significant_gap",
     "large_gap"}

\* C12: analyze_experience_gap returns, for every pair of arguments, a status
\* of the nine-element enumeration and never the initial 'unknown': required
\* unknown or 0 gives no_requirement; else candidate unknown gives not_found;
\* c >= r gives meets_requirement when c <= 1.5r, exceeds_requirement when
\* c <= 2r, else highly_experienced; c < r gives close_match when the ratio is
\* at least 0.8, moderate_gap when at least 0.6, significant_gap when at least
\* 0.4, else large_gap.
C12_GapClassification ==
    gap_called =>
        LET c == gap_candidate
            r == gap_required
            status == gap_analysis.status
        IN  /\ status \in GapStatuses
            /\ status =
                 IF r = NoneYears \/ r = 0 THEN "no_requirement"
                 ELSE IF c = NoneYears THEN "not_found"
                 ELSE IF c >= r THEN
                     (IF 2 * c <= 3 * r THEN "meets_requirement"
                      ELSE IF c <= 2 * r THEN "exceeds_requirement"
                      ELSE "highly_experienced")
                 ELSE IF 10 * c >= 8 * r THEN "close_match"
                 ELSE IF 10 * c >= 6 * r THEN "moderate_gap"
                 ELSE IF 10 * c >= 4 * r THEN "significant_gap"
                 ELSE "large_gap"

C12_Witness ==
    /\ gap_called
    /\ gap_candidate = 1
    /\ gap_required = 5
    /\ gap_analysis.status = "large_gap"
    /\ gap_analysis.gap = 4

-----------------------------------------------------------------------------
(* Claims about the extraction of years of experience *)

\* the result of extract_years_of_experience when no pattern matches
ResumeYearsUnknown == [max_years |-> 0, total_mentions |-> 0]

\* the result of _extract_experience_requirement when no pattern matches
JdYearsUnknown == [min_years |-> 0, max_years |-> 0, required |-> FALSE]

IsMaximumOf(y, years) == y \in Range(years) /\ \A z \in Range(years) : z <= y

\* C15: extract_years_of_experience and the experience-requirement extraction
\* of JDSkillExtractor return one distinguished result when no experience
\* pattern matches the text, a result different from the one for a text that
\* states 0 years; when patterns match, the years they return are the maximum
\* N over all matches of all patterns.
C15_UnknownDistinctFromZero ==
    /\ yr_method = "extract_years_of_experience" =>
           LET years == YearsFound(ResumeYearsPatterns, Lower(yr_text))
           IN  IF years = <<>> THEN yr_result = ResumeYearsUnknown
               ELSE /\ yr_result # ResumeYearsUnknown
                    /\ IsMaximumOf(yr_result.max_years, years)
    /\ yr_method = "extract" =>
           LET years == YearsFound(JdYearsPatterns, Lower(yr_text))
           IN  IF years = <<>> THEN yr_result = JdYearsUnknown
               ELSE /\ yr_result # JdYearsUnknown
                    /\ IsMaximumOf(yr_result.max_years, years)

C15_Witness ==
    /\ yr_method = "extract_years_of_experience"
    /\ yr_text = <<"0", " ", "y", "e", "a", "r", "s", " ", "e", "x", "p",
                   "e", "r", "i", "e", "n", "c", "e">>
    /\ yr_result = [max_years |-> 0, total_mentions |-> 1]

-----------------------------------------------------------------------------
(* Claims about TextCleaner.clean *)

\* C19: clean is idempotent, clean(clean(x)) = clean(x), for every input text
\* and every setting of lowercase and remove_stopwords, and clean of the empty
\* text is the empty string.
C19_CleanIdempotent ==
    /\ cl_calls = 2 => cl_recleaned = cl_cleaned
    /\ (cl_calls >= 1 /\ cl_text = <<>>) => cl_cleaned = <<>>

\* the alphanumeric words of a text: its maximal runs of word characters
AlnumWords(text) == Range(FindAll(<<Plus(WordChars)>>, 1, text))

\* C20: with lowercase set, the text clean returns holds no URL, no e-mail
\* address, no two consecutive spaces, no bullet character and no uppercase
\* letter, and every alphanumeric word of the input outside the URLs and e-mail
\* addresses is still in it (in lower case; stop words excepted when they
\* are removed).
C20_CleanedTextHasNoTargetPattern ==
    (cl_calls >= 1 /\ cl_lowercase) =>
        /\ ~Search(url_pattern, cl_cleaned)
        /\ ~Search(email_pattern, cl_cleaned)
        /\ ~Occurs(<<" ", " ">>, cl_cleaned)
        /\ Bullet \notin Range(cl_cleaned)
        /\ Range(cl_cleaned) \cap Range(UpperLetters) = {}
        /\ \A word \in AlnumWords(RemoveEmails(RemoveUrls(cl_text))) :
               \/ cl_remove_stopwords /\ Lower(word) \in StopWords
               \/ Occurs(Lower(word), cl_cleaned)

-----------------------------------------------------------------------------
(* Claims about EnhancedResumeAnalyzer.analyze *)

\* the steps of analyze, in order
PlSteps == <<"start", "text", "skills", "matched", "similarity", "semantic",
             "scored", "done">>

\* analyze has reached the step or gone past it
Reached(step) ==
    \E i, j \in 1..Len(PlSteps) : PlSteps[i] = step /\ PlSteps[j] = pl_pc /\ i <= j

\* C13: when the resume text states C years of experience and the job
\* description states a requirement of R > 0 years, the experience sub-score
\* that enters the final score is calculate_experience_score(C, R) and the
\* experience_analysis of the report is analyze_experience_gap(C, R); a resume
\* with 5 years against a job description asking for 5+ years scores 100.
C13_ExperienceScoreFromStatedYears ==
    LET C == resume_experience_raw.max_years
        R == jd_analysis.experience_requirement.min_years
    IN  ( /\ Reached("scored")
          /\ resume_experience_raw.total_mentions > 0
          /\ jd_analysis.experience_requirement.required
          /\ R > 0 )
        => /\ scores.experience_score = ExpCalculateExperienceScore(C, R)
           /\ experience_analysis = ExpAnalyzeExperienceGap(C, R)
           /\ (C = 5 /\ R = 5) => scores.experience_score = Num(100)

\* the skills all the categories of a dict hold
AllValues(dict) == UNION {Range(dict[i].skills) : i \in 1..Len(dict)}

\* the skills of the taxonomy a text mentions
Mentions(text) == {skill \in {Python, SQL, AWS} : SkillExists(Lower(skill), Lower(text))}

\* C14: the candidate list and the required list handed to the matcher are
\* the skill names SkillExtractor.extract and JDSkillExtractor.extract found,
\* not category names; so a resume that mentions Python and SQL, against a job
\* description that requires Python, SQL and AWS, gives matched_exact =
\* {Python, SQL}, missing = {AWS} (in the lower case of the matcher) and a
\* skill score of 66.7.
C14_MatcherGetsSkillNames ==
    /\ Reached("skills") =>
           /\ Range(resume_skills_in) = AllValues(traditional_skills)
           /\ Range(required_skills_in) = AllValues(jd_analysis.required_skills)
    /\ ( /\ pl_pc = "done"
         /\ Mentions(resume_text) = {Python, SQL}
         /\ Mentions(jd_text_cleaned) = {Python, SQL, AWS} )
       => /\ report.matched_exact = {Lower(Python), Lower(SQL)}
          /\ report.missing = {Lower(AWS)}
          /\ scores.skill_score = Frac(667, 10)

\* C16: for an empty job description JDSkillExtractor.extract returns empty
\* required and preferred skills and total_required_skills = 0 without
\* raising, match_skills then returns empty matched and missing sets for the
\* empty required list, and calculate_skill_match_score returns 100 for the
\* required count 0.
C16_EmptyJobDescription ==
    (Reached("skills") /\ jd_text_cleaned = <<>>) =>
        /\ pl_error = ""
        /\ jd_analysis.required_skills = <<>>
        /\ jd_analysis.preferred_skills = <<>>
        /\ jd_analysis.total_required_skills = 0
        /\ Reached("matched") =>
               /\ skill_matching.matched_exact = {}
               /\ skill_matching.matched_fuzzy = <<>>
               /\ skill_matching.missing = {}
               /\ skill_matching.total_required = 0
        /\ Reached("scored") => scores.skill_score = Num(100)

\* a resume with skills has been analysed against the empty job description
C16_Witness ==
    /\ pl_pc = "done"
    /\ jd_text = <<>>
    /\ traditional_skills # <<>>
    /\ scores.skill_score = Num(100)

-----------------------------------------------------------------------------
(* Claims about unreadable resume documents *)

\* C17: PDFExtractor.extract and DOCXExtractor.extract return a text longer
\* than 50 characters or raise, trying the first library before the second and
\* the second only when the first gives too little text; analyze raises, and
\* makes no report, for every document that cannot be read or holds fewer
\* than 50 characters, a .txt file included.
C17_UnreadableDocumentRaises ==
    LET extracted == ExtractorExtract(resume_file)
        raw == ExtractRawText(resume_file)
        unusable == raw.raised # "" \/ Len(Strip(raw.value)) < 50
    IN  /\ extracted.raised # "" \/ Len(extracted.value) > 50
        /\ resume_file.exists =>
               /\ extracted.tried[1] = "primary"
               /\ (Len(extracted.tried) > 1) <=>
                      (Len(Strip(LibraryText(resume_file.primary))) <= 50)
        /\ (pl_pc # "start" /\ unusable) =>
               /\ pl_pc = "raised"
               /\ pl_error \in {"ValueError", "FileNotFoundError"}
               /\ report = EmptyReport
        /\ pl_pc = "raised" => unusable

\* analyze has raised for a PDF that the first library cannot read and of
\* which the second library gives 50 characters
C17_Witness ==
    /\ pl_pc = "raised"
    /\ pl_error = "ValueError"
    /\ resume_file.suffix = ".pdf"
    /\ resume_file.exists
    /\ resume_file.primary = Unreadable
    /\ resume_file.fallback # Unreadable
    /\ Len(resume_file.fallback) = 50

-----------------------------------------------------------------------------
(* Claims about the Embedder *)

\* C18: calculate_similarity returns 0.0 and does not raise when a text is
\* empty or the encoding fails, and its result always lies in [0, 1];
\* semantic_skill_match in these situations returns an empty matched list, with
\* every skill of the job description in unmatched_jd and every skill of the
\* resume in unmatched_resume.
C18_EmbedderAbsorbsFailures ==
    /\ emb_method = "calculate_similarity" =>
           /\ (emb_text1 = <<>> \/ emb_text2 = <<>> \/ emb_model_fails) => emb_similarity = 0
           /\ emb_similarity \in 0..100
    /\ ( /\ emb_method = "semantic_skill_match"
         /\ emb_resume_skills = <<>> \/ emb_jd_skills = <<>> \/ emb_model_fails )
       => /\ emb_match.matched = <<>>
          /\ Range(CleanList(emb_jd_skills)) \subseteq Range(emb_match.unmatched_jd)
          /\ Range(CleanList(emb_resume_skills)) \subseteq Range(emb_match.unmatched_resume)

-----------------------------------------------------------------------------
(* Claims about the gap figures of ExperienceScorer.analyze_experience_gap *)

\* C30: whenever candidate_years is known (0 included) and required_years > 0,
\* analyze_experience_gap returns gap = required_years - candidate_years and
\* gap_percentage = gap / required_years * 100, with candidate_experience and
\* required_experience equal to the two arguments; gap and gap_percentage are
\* 0 only for no_requirement, for not_found or when candidate equals required.
C30_GapFigures ==
    gap_called =>
        /\ (gap_candidate # NoneYears /\ gap_required # NoneYears /\ gap_required > 0) =>
               /\ gap_analysis.gap = gap_required - gap_candidate
               /\ gap_analysis.gap_percentage =
                      Frac((gap_required - gap_candidate) * 100, gap_required)
               /\ gap_analysis.candidate_experience = gap_candidate
               /\ gap_analysis.required_experience = gap_required
        /\ (gap_analysis.gap = 0 \/ gap_analysis.gap_percentage = Num(0)) =>
               \/ gap_analysis.status \in {"no_requirement", "not_found"}
               \/ gap_candidate = gap_required

-----------------------------------------------------------------------------
(* Claims about the two experience scores *)

\* C29: for every candidate_years and required_years (each unknown or a
\* non-negative integer), MatchScorer.calculate_experience_score and
\* ExperienceScorer.calculate_experience_score return the same score, and both
\* results lie in [0, 100].
C29_ExperienceScoresAgree ==
    (exp_called /\ mx_called /\ exp_candidate = mx_candidate /\ exp_required = mx_required)
        => /\ exp_score = mx_score
           /\ InRange0To100(exp_score)
           /\ InRange0To100(mx_score)

-----------------------------------------------------------------------------
(* Claims about SummaryGenerator.generate_report *)

\* C21: generate_report is deterministic: two invocations with identical
\* arguments, at any two times, return identical reports (every field of the
\* returned dictionary is equal).
C21_ReportDeterministic ==
    \A i, j \in DOMAIN rp_calls :
        rp_calls[i].args = rp_calls[j].args => rp_calls[i].report = rp_calls[j].report

\* C22: get_rating maps every score to exactly one of six labels by the
\* thresholds 90/80/70/60/50, and the rating in overall_score.rating of a report
\* is get_rating of the overall_score.final_score shown in the same report.
C22_RatingOfShownScore ==
    \A i \in DOMAIN rp_calls :
        LET shown == rp_calls[i].report.overall_score.final_score
            rating == rp_calls[i].report.overall_score.rating
        IN  /\ rating = GetRating(shown)
            /\ rating = "Excellent Match" <=> RatLeq(Num(90), shown)
            /\ rating = "Very Good Match" <=> RatLeq(Num(80), shown) /\ RatLt(shown, Num(90))
            /\ rating = "Good Match" <=> RatLeq(Num(70), shown) /\ RatLt(shown, Num(80))
            /\ rating = "Fair Match" <=> RatLeq(Num(60), shown) /\ RatLt(shown, Num(70))
            /\ rating = "Moderate Match" <=> RatLeq(Num(50), shown) /\ RatLt(shown, Num(60))
            /\ rating = "Weak Match" <=> RatLt(shown, Num(50))

\* C26: for every experience analysis of analyze_experience_gap whose status is
\* moderate_gap, significant_gap or large_gap, the recommendations of the
\* report contain the recommendation of that analysis; for every other status
\* they do not.
C26_GapRecommendationPassedOn ==
    \A i \in DOMAIN rp_calls :
        LET analysis == rp_calls[i].args.experience_analysis
        IN  Plain(analysis.recommendation) \in Range(rp_calls[i].report.recommendations)
                <=> analysis.status \in {"moderate_gap", "significant_gap", "large_gap"}

-----------------------------------------------------------------------------
(* Claims about the fuzzy pass of SimilarityMatcher.match_skills *)

\* the place of skill in the iteration order
PositionIn(skill, order) == CHOOSE k \in DOMAIN order : order[k] = skill

\* the candidates consumed by the required skills iterated before the k-th
ConsumedBefore(k) ==
    {pair.resume : pair \in {q \in Range(ms_result.fuzzy_pairs) :
                                 PositionIn(q.required, ms_req_order) < k}}

\* the candidates still unconsumed when the k-th required skill is processed
RemainingAt(k) == Range(ms_res_order) \ ConsumedBefore(k)

\* C23: in the fuzzy pass, a required skill left over from the exact pass is in
\* matched_fuzzy if and only if, when it is processed, some still-unconsumed
\* candidate has a similarity score >= threshold (for every threshold in
\* 0..100), and it is paired with a candidate of maximal score; candidate
\* 'Postgre SQL' against required 'PostgreSQL' at threshold 85 is matched and
\* appears in neither missing nor extra.
C23_FuzzyMatchIffScoreReachesThreshold ==
    ms_called =>
        /\ \A k \in DOMAIN ms_req_order :
               /\ ms_req_order[k] \in Range(ms_result.matched_fuzzy)
                      <=> \E c \in RemainingAt(k) :
                              FuzzRatio(ms_req_order[k], c) >= ms_threshold
               /\ \A pair \in Range(ms_result.fuzzy_pairs) :
                      pair.required = ms_req_order[k] =>
                          /\ pair.resume \in RemainingAt(k)
                          /\ pair.score = FuzzRatio(pair.required, pair.resume)
                          /\ \A c \in RemainingAt(k) :
                                 FuzzRatio(pair.required, c) <= pair.score
        /\ ( /\ ms_resume_skills = <<Postgre_SQL>>
             /\ ms_required_skills = <<PostgreSQL>>
             /\ ms_threshold = FuzzyThreshold )
           => /\ ms_result.matched_fuzzy = <<Lower(PostgreSQL)>>
              /\ ms_result.missing = {}
              /\ ms_result.extra = {}

\* C24: the fuzzy pass is a greedy one-to-one assignment: no candidate is paired
\* with more than one required skill and no required skill is paired more than
\* once, and when several remaining candidates tie at the best score for a
\* required skill, the first of them in the iteration order of the candidate
\* pool is chosen and consumed.
C24_GreedyOneToOne ==
    ms_called =>
        /\ \A i, j \in DOMAIN ms_result.fuzzy_pairs :
               i # j => /\ ms_result.fuzzy_pairs[i].resume # ms_result.fuzzy_pairs[j].resume
                        /\ ms_result.fuzzy_pairs[i].required # ms_result.fuzzy_pairs[j].required
        /\ \A pair \in Range(ms_result.fuzzy_pairs) :
               /\ pair.resume \notin ms_result.extra
               /\ \A c \in RemainingAt(PositionIn(pair.required, ms_req_order)) :
                      FuzzRatio(pair.required, c) = pair.score
                          => PositionIn(pair.resume, ms_res_order)
                                 <= PositionIn(c, ms_res_order)

\* css3 and scss tie at 86 for css; scss comes first in the iteration order
C24_Witness ==
    /\ ms_called
    /\ ms_resume_skills = <<css3, scss>>
    /\ ms_required_skills = <<css>>
    /\ ms_threshold = FuzzyThreshold
    /\ ms_res_order = <<scss, css3>>
    /\ ms_result.fuzzy_pairs = <<[required |-> css, resume |-> scss, score |-> 86]>>
    /\ ms_result.extra = {css3}

\* C27: for every pair of input lists (lists with duplicate or differently-cased
\* entries included), total_required = len(matched_exact) + len(matched_fuzzy)
\* + len(missing), total_matched = len(matched_exact) + len(matched_fuzzy) <=
\* total_required, and match_percentage = total_matched / total_required * 100
\* lies in [0, 100] (0 when there are no required skills).
C27_CountersMatchSets ==
    ms_called =>
        /\ ms_result.total_required =
               Cardinality(ms_result.matched_exact) + Len(ms_result.matched_fuzzy)
                   + Cardinality(ms_result.missing)
        /\ ms_result.total_matched =
               Cardinality(ms_result.matched_exact) + Len(ms_result.matched_fuzzy)
        /\ ms_result.total_matched <= ms_result.total_required
        /\ ms_result.match_percentage =
               IF ms_result.total_required = 0 THEN Num(0)
               ELSE Frac(ms_result.total_matched * 100, ms_result.total_required)
        /\ InRange0To100(ms_result.match_percentage)

\* C28: matched_fuzzy, missing and extra depend only on the contents of the two
\* skill sets and on the threshold: any two iteration orders of the working
\* sets over the same inputs give the same three sets.
C28_IterationOrderIrrelevant ==
    ms_called =>
        \A other \in MatchSkillsResults(ms_resume_skills, ms_required_skills, ms_threshold) :
            /\ Range(other.matched_fuzzy) = Range(ms_result.matched_fuzzy)
            /\ other.missing = ms_result.missing
            /\ other.extra = ms_result.extra

-----------------------------------------------------------------------------
(* Claims about Embedder.semantic_skill_match *)

\* the resume skills paired with the JD skills that come before the k-th
SemanticUsedBefore(k) ==
    {pair.resume_skill : pair \in {q \in Range(semantic_skill_match.semantic_pairs) :
         PositionIn(q.jd_skill, CleanList(required_skills_in)) < k}}

\* the indexes of the resume skills still unused when the k-th JD skill is
\* processed
SemanticUnusedAt(k) ==
    {r \in DOMAIN CleanList(resume_skills_in) :
         CleanList(resume_skills_in)[r] \notin SemanticUsedBefore(k)}

\* the k-th JD skill is assigned as claimed: matched exactly when an unused
\* resume skill reaches the threshold, then to the first unused resume skill of
\* the highest similarity
SemanticAssignedGreedily(k) ==
    /\ CleanList(required_skills_in)[k] \in Range(semantic_skill_match.matched)
           <=> \E r \in SemanticUnusedAt(k) : similarity_matrix[r][k] >= SemanticThreshold
    /\ \A pair \in Range(semantic_skill_match.semantic_pairs) :
           pair.jd_skill = CleanList(required_skills_in)[k] =>
               \E r \in SemanticUnusedAt(k) :
                   /\ CleanList(resume_skills_in)[r] = pair.resume_skill
                   /\ pair.similarity = similarity_matrix[r][k]
                   /\ \A o \in SemanticUnusedAt(k) :
                          /\ similarity_matrix[o][k] <= pair.similarity
                          /\ similarity_matrix[o][k] = pair.similarity => r <= o

\* C25: semantic_skill_match processes the JD skills in input order and assigns
\* each to the still-unused resume skill with the highest cosine similarity
\* that reaches the threshold, first index winning ties; no resume skill
\* appears in two semantic_pairs, matched and unmatched_jd partition the
\* cleaned JD skill list, and unmatched_resume is exactly the resume skills not
\* used in any pair.
C25_SemanticGreedyAssignment ==
    an_pc \in {"semantic_matched", "done"} =>
        /\ \A i, j \in DOMAIN semantic_skill_match.semantic_pairs :
               i < j =>
                   /\ PositionIn(semantic_skill_match.semantic_pairs[i].jd_skill,
                                 CleanList(required_skills_in))
                          < PositionIn(semantic_skill_match.semantic_pairs[j].jd_skill,
                                       CleanList(required_skills_in))
                   /\ semantic_skill_match.semantic_pairs[i].resume_skill
                          # semantic_skill_match.semantic_pairs[j].resume_skill
        /\ \A k \in DOMAIN CleanList(required_skills_in) : SemanticAssignedGreedily(k)
        /\ semantic_skill_match.matched =
               [i \in DOMAIN semantic_skill_match.semantic_pairs |->
                    semantic_skill_match.semantic_pairs[i].jd_skill]
        /\ Range(semantic_skill_match.matched) \cup Range(semantic_skill_match.unmatched_jd)
               = Range(CleanList(required_skills_in))
        /\ Range(semantic_skill_match.matched) \cap Range(semantic_skill_match.unmatched_jd) = {}
        /\ Len(semantic_skill_match.matched) + Len(semantic_skill_match.unmatched_jd)
               = Len(CleanList(required_skills_in))
        /\ semantic_skill_match.unmatched_resume =
               SelectSeq(CleanList(resume_skills_in),
                         LAMBDA skill : \A pair \in Range(semantic_skill_match.semantic_pairs) :
                                            pair.resume_skill # skill)

====
